---- MODULE Spec2Model ----
(***************************************************************************)
(* CommitPulse: the ingestion-and-streak engine.                           *)
(*                                                                         *)
(*   - the date-key utilities and the streak calculator of convex/lib.ts   *)
(*     (the revision that github.ts imports),                              *)
(*   - the commit store, the sync-job queue and the sync worker of         *)
(*     convex/github.ts and convex/githubNode.ts,                          *)
(*   - the goals and notification settings of convex/goals.ts and          *)
(*     convex/telegram.ts and the reminder engine of telegramNode.ts.      *)
(*                                                                         *)
(* Time is counted in whole seconds: every duration of the source, written *)
(* there in milliseconds, goes through Ms(_).                              *)
(***************************************************************************)
EXTENDS Integers, Sequences, FiniteSets, TLC

VARIABLES
  now,           \* Date.now()
  goals,         \* goals table
  connections,   \* githubConnections table
  commitEvents,  \* commitEvents table
  dailyStats,    \* dailyStats table
  jobs,          \* githubSyncJobs table
  jobSeq,        \* number of jobs inserted so far: the next job's id is jobSeq + 1
  deliveries,    \* githubWebhookDeliveries table: the delivery ids ingested
  hookResult,    \* what ingestWebhookEvent returned last
  github,        \* the provider: the commits of the installation's repositories
  setup,         \* completeGithubAppSetup: the call in flight, by user
  workers,       \* runSyncWorker invocations
  tasks          \* processJobWithRetry activations of the workers' current batches

pipeVars == <<now, goals, connections, commitEvents, dailyStats, jobs, jobSeq,
              deliveries, hookResult, github, setup, workers, tasks>>

VARIABLES
  sEvents,        \* committedAt[]: the event timestamps handed to the calculator
  sTz,            \* the time zone handed to the calculator
  sAnchor,        \* anchorTimestamp
  sResult,        \* what computeCurrentStreakFromCommitEvents returned last, or NoResult
  sBefore,        \* what it returned before the last event was appended
  sLookbackDays,  \* lookbackDays of the last boundary test, or null
  sTouches,       \* result of the last boundary test
  sAdded          \* number of events appended since the first computation

streakVars == <<sEvents, sTz, sAnchor, sResult, sBefore, sLookbackDays, sTouches, sAdded>>

VARIABLES
  telegramConnections,  \* telegramConnections table
  reminder,             \* the sendSmartReminders invocation
  outbox,               \* the messages Telegram has accepted
  sendFaults,           \* number of sendMessage requests Telegram has refused
  settingsCalls         \* number of setGoals and updateSettings calls made

remindVars == <<telegramConnections, reminder, outbox, sendFaults, settingsCalls>>

VARIABLES
  telegramLogins   \* telegramLogins table

loginVars == <<telegramLogins>>

vars == <<pipeVars, streakVars, remindVars, loginVars>>


----------------------------------------------------------------------------
(* Values shared by the whole model *)

\* JavaScript null / undefined for an optional number
null == 0 - 1

\* JavaScript null for an optional date key
NullKey == << >>

\* a duration the source writes in milliseconds, in the model's seconds
Ms(x) == x \div 1000

DAY_MS == Ms(24 * 60 * 60 * 1000)

HOUR_MS == Ms(60 * 60 * 1000)

INITIAL_BACKFILL_DAYS == 90

BACKFILL_STEP_DAYS == 90

MAX_BACKFILL_DAYS == 1825

Min(a, b) == IF a <= b THEN a ELSE b

Max(a, b) == IF a >= b THEN a ELSE b

----------------------------------------------------------------------------
(* Civil calendar: what Date.UTC and Intl.DateTimeFormat compute *)

\* the day number of day doy (0 = 1 March) of year yoe of a 400-year era
DaysFromEra(era, yoe, doy) ==
  era * 146097 + (yoe * 365 + yoe \div 4 - yoe \div 100 + doy) - 719468

\* the same, for the year yy that starts on 1 March
DaysFromMarchYear(yy, doy) == DaysFromEra(yy \div 400, yy % 400, doy)

\* days since 1970-01-01 of the civil date y-m-d (Date.UTC(y, m - 1, d) / DAY_MS)
DaysFromCivil(y, m, d) ==
  DaysFromMarchYear(IF m <= 2 THEN y - 1 ELSE y,
                    (153 * (IF m > 2 THEN m - 3 ELSE m + 9) + 2) \div 5 + d - 1)

\* the civil date of day doy of the March year y0, whose month from March is mp
CivilFromMonth(y0, doy, mp) ==
  << y0 + (IF mp < 10 THEN 0 ELSE 1),
     IF mp < 10 THEN mp + 3 ELSE mp - 9,
     doy - (153 * mp + 2) \div 5 + 1 >>

CivilFromDayOfYear(y0, doy) == CivilFromMonth(y0, doy, (5 * doy + 2) \div 153)

CivilFromYearOfEra(era, doe, yoe) ==
  CivilFromDayOfYear(yoe + era * 400, doe - (365 * yoe + yoe \div 4 - yoe \div 100))

CivilFromDayOfEra(era, doe) ==
  CivilFromYearOfEra(era, doe,
                     (doe - doe \div 1460 + doe \div 36524 - doe \div 146096) \div 365)

\* the civil date <<y, m, d>> of a day number
CivilFromDays(z) == CivilFromDayOfEra((z + 719468) \div 146097, (z + 719468) % 146097)

\* 0 = Sunday
Weekday(dayNumber) == (dayNumber + 4) % 7

\* the first Sunday on or after a day
SundayFrom(dayNumber) == dayNumber + ((7 - Weekday(dayNumber)) % 7)

\* the day number of the n-th Sunday of month m of year y
NthSunday(y, m, n) == SundayFrom(DaysFromCivil(y, m, 1) + 7 * (n - 1))

TimeZones == {"UTC", "America/Los_Angeles", "Asia/Tokyo"}

\* the UTC offset the runtime's time-zone database gives for the zone at an instant
TzOffset(timeZone, timestamp) ==
  CASE timeZone = "America/Los_Angeles" ->
         LET y        == CivilFromDays(timestamp \div DAY_MS)[1]
             dstStart == NthSunday(y, 3, 2) * DAY_MS + 10 * HOUR_MS
             dstEnd   == NthSunday(y, 11, 1) * DAY_MS + 9 * HOUR_MS
         IN  IF timestamp >= dstStart /\ timestamp < dstEnd
               THEN 0 - 7 * HOUR_MS
               ELSE 0 - 8 * HOUR_MS
    [] timeZone = "Asia/Tokyo" -> 9 * HOUR_MS
    [] OTHER -> 0

\* the calendar day number of an instant in a zone
LocalDay(timestamp, timeZone) == (timestamp + TzOffset(timeZone, timestamp)) \div DAY_MS

----------------------------------------------------------------------------
(* lib.ts: date keys.  A date key "YYYY-MM-DD" is the tuple <<YYYY, MM, DD>>. *)

\* UTC-day truncation, whatever the zone
toDateKey_UtcTruncation(timestamp, timeZone) == CivilFromDays(timestamp \div DAY_MS)

toDateKey(timestamp, timeZone) ==
  CivilFromDays((timestamp + TzOffset(timeZone, timestamp)) \div DAY_MS)

dateKeyToDayStamp(dateKey) ==
  IF Len(dateKey) = 3
    THEN DaysFromCivil(dateKey[1], dateKey[2], dateKey[3]) * DAY_MS
    ELSE null

dayStampToDateKey(dayStamp) == CivilFromDays(dayStamp \div DAY_MS)

SetMax(S) == CHOOSE x \in S : \A y \in S : y <= x

SetMin(S) == CHOOSE x \in S : \A y \in S : x <= y

\* let streakDays = 0; let cursorStamp = startStamp;
\* while (stamps.has(cursorStamp)) { streakDays += 1; cursorStamp -= DAY_MS }
\* The loop leaves at the first cursor that is no member: streakDays steps below the start.
StreakWalk(stamps, startStamp) ==
  LET streakDays == CHOOSE n \in 0..Cardinality(stamps) :
                      /\ (startStamp - n * DAY_MS) \notin stamps
                      /\ \A i \in 0..(n - 1) : (startStamp - i * DAY_MS) \in stamps
  IN  [streakDays |-> streakDays, cursorStamp |-> startStamp - streakDays * DAY_MS]

\* the anchor day only: no fall-back to the day before
StartStamp_NoFallback(stamps, anchorStamp) ==
  IF anchorStamp \in stamps THEN anchorStamp ELSE null

\* falls back to the newest day that has an event, however old
StartStamp_Newest(stamps, anchorStamp) ==
  IF anchorStamp \in stamps THEN anchorStamp ELSE SetMax(stamps)

StartStamp(stamps, anchorStamp) ==
  IF anchorStamp \in stamps
    THEN anchorStamp
    ELSE IF (anchorStamp - DAY_MS) \in stamps
      THEN anchorStamp - DAY_MS
      ELSE null

\* Array.from(new Set(dateKeys.map(dateKeyToDayStamp).filter(stamp => stamp !== null)))
UniqueStamps(dateKeys) ==
  {dateKeyToDayStamp(dateKeys[i]) : i \in DOMAIN dateKeys} \ {null}

\* computeCurrentStreakFromDateKeys from the second statement on
StreakOverStamps(uniqueStamps, anchorDateKey) ==
  LET anchorStamp  == dateKeyToDayStamp(anchorDateKey)
      newestDateKey == IF uniqueStamps # {} THEN dayStampToDateKey(SetMax(uniqueStamps))
                                           ELSE NullKey
      oldestDateKey == IF uniqueStamps # {} THEN dayStampToDateKey(SetMin(uniqueStamps))
                                           ELSE NullKey
      zero == [anchorDateKey      |-> anchorDateKey,
               streakDays         |-> 0,
               streakStartDateKey |-> NullKey,
               firstGapDateKey    |-> anchorDateKey,
               newestDateKey      |-> newestDateKey,
               oldestDateKey      |-> oldestDateKey]
  IN  IF uniqueStamps = {} \/ anchorStamp = null
        THEN zero
        ELSE
          LET startStamp == StartStamp(uniqueStamps, anchorStamp)
          IN  IF startStamp = null
                THEN zero
                ELSE
                  LET walk == StreakWalk(uniqueStamps, startStamp)
                      streakStartStamp == startStamp - (walk.streakDays - 1) * DAY_MS
                  IN  [anchorDateKey      |-> anchorDateKey,
                       streakDays         |-> walk.streakDays,
                       streakStartDateKey |-> dayStampToDateKey(streakStartStamp),
                       firstGapDateKey    |-> dayStampToDateKey(walk.cursorStamp),
                       newestDateKey      |-> newestDateKey,
                       oldestDateKey      |-> oldestDateKey]

\* counts the events of the run instead of its days (no Set)
computeCurrentStreakFromDateKeys_NoDedupe(dateKeys, anchorDateKey) ==
  LET r == StreakOverStamps(UniqueStamps(dateKeys), anchorDateKey)
      first == IF r.streakDays = 0 THEN 0 ELSE dateKeyToDayStamp(r.streakStartDateKey)
      inRun == {i \in DOMAIN dateKeys :
                  /\ r.streakDays > 0
                  /\ dateKeyToDayStamp(dateKeys[i]) >= first
                  /\ dateKeyToDayStamp(dateKeys[i]) <= first + (r.streakDays - 1) * DAY_MS}
  IN  [r EXCEPT !.streakDays = Cardinality(inRun)]

computeCurrentStreakFromDateKeys(dateKeys, anchorDateKey) ==
  StreakOverStamps(UniqueStamps(dateKeys), anchorDateKey)

computeCurrentStreakFromCommitEvents(committedAt, timeZone, anchorTimestamp) ==
  LET dateKeys == [i \in DOMAIN committedAt |-> toDateKey(committedAt[i], timeZone)]
      anchorDateKey == toDateKey(anchorTimestamp, timeZone)
  IN  computeCurrentStreakFromDateKeys(dateKeys, anchorDateKey)

\* strictly before the lookback start
touchesLookbackBoundary_Strict(streakStartDateKey, lookbackStartDateKey) ==
  /\ streakStartDateKey # NullKey
  /\ dateKeyToDayStamp(streakStartDateKey) < dateKeyToDayStamp(lookbackStartDateKey)

touchesLookbackBoundary(streakStartDateKey, lookbackStartDateKey) ==
  IF streakStartDateKey = NullKey
    THEN FALSE
    ELSE
      LET streakStartStamp   == dateKeyToDayStamp(streakStartDateKey)
          lookbackStartStamp == dateKeyToDayStamp(lookbackStartDateKey)
      IN  IF streakStartStamp = null \/ lookbackStartStamp = null
            THEN FALSE
            ELSE streakStartStamp <= lookbackStartStamp

----------------------------------------------------------------------------
(* The streak calculator applied to bounded inputs *)

\* longest run of consecutive days among the exhaustively generated short inputs
MaxRun == 5

\* lengths of the long runs: the tests' 12, 34 and 140 days, and the runs around a
\* lookback of INITIAL_BACKFILL_DAYS and of 140 days
LongRuns == {12, 34, INITIAL_BACKFILL_DAYS, INITIAL_BACKFILL_DAYS + 1,
             INITIAL_BACKFILL_DAYS + 2, 140, 141}

\* largest number of empty days between the anchor and the newest generated event
MaxGap == 3

\* events of the separate, older run the generated inputs may hold
MaxOlderRun == 1

\* further same-day events AddSameDayEvent appends
MaxDup == 2

\* 2026-02-15T12:00:00Z
AnchorNoon == DaysFromCivil(2026, 2, 15) * DAY_MS + 12 * HOUR_MS

\* time-of-day shifts of the generated events: 12:00Z, 07:30Z, 22:30Z
Shifts == {0, 0 - Ms(16200000), Ms(37800000)}

LookbackChoices == {0, 1, INITIAL_BACKFILL_DAYS, 140}

\* n events, one per day, the newest e days before the anchor's UTC day
RunEvents(e, n, shift) == [i \in 1..n |-> AnchorNoon - (e + i - 1) * DAY_MS + shift]

\* the test "handles timezone boundaries around midnight"
BoundaryCase ==
  << DaysFromCivil(2026, 2, 15) * DAY_MS + Ms(27000000),
     DaysFromCivil(2026, 2, 15) * DAY_MS + Ms(81000000),
     DaysFromCivil(2026, 2, 14) * DAY_MS + Ms(30600000) >>

StreakInputs ==
  {BoundaryCase} \cup
  { RunEvents(e, n, shift) \o RunEvents(e + n + g, m, shift) :
      e \in 0..MaxGap, n \in 0..MaxRun, g \in 1..2, m \in 0..MaxOlderRun, shift \in Shifts }
  \cup
  { RunEvents(e, n, shift) : e \in 0..1, n \in LongRuns, shift \in Shifts }

\* the calculator has not run
NoResult ==
  [anchorDateKey |-> NullKey, streakDays |-> null, streakStartDateKey |-> NullKey,
   firstGapDateKey |-> NullKey, newestDateKey |-> NullKey, oldestDateKey |-> NullKey]

StreakInit ==
  /\ sEvents \in StreakInputs
  /\ sTz \in TimeZones
  /\ sAnchor = AnchorNoon
  /\ sResult = NoResult
  /\ sBefore = NoResult
  /\ sLookbackDays = null
  /\ sTouches = FALSE
  /\ sAdded = 0

ComputeStreak ==
  /\ sResult = NoResult
  /\ sResult' = computeCurrentStreakFromCommitEvents(sEvents, sTz, sAnchor)
  /\ UNCHANGED <<sEvents, sTz, sAnchor, sBefore, sLookbackDays, sTouches, sAdded>>
  /\ UNCHANGED <<pipeVars, loginVars, remindVars>>

\* a further commit 60 s or 120 s after one of the two newest events, same local day,
\* and the streak computed again
AddSameDayEvent ==
  /\ sResult # NoResult
  /\ sAdded < MaxDup
  /\ sAdded' = sAdded + 1
  /\ \E i \in 1..Min(2, Len(sEvents)) :
       LET t == sEvents[i] + i * Ms(60000)
       IN  /\ Cardinality({j \in DOMAIN sEvents : sEvents[j] = t}) = 0
           /\ LocalDay(t, sTz) = LocalDay(sEvents[i], sTz)
           /\ sEvents' = Append(sEvents, t)
  /\ sBefore' = sResult
  /\ sResult' = computeCurrentStreakFromCommitEvents(sEvents', sTz, sAnchor)
  /\ UNCHANGED <<sTz, sAnchor, sLookbackDays, sTouches>>
  /\ UNCHANGED <<pipeVars, loginVars, remindVars>>

\* computeCurrentStreakSnapshot's boundary test for a lookback of L days
CheckBoundary ==
  /\ sResult # NoResult
  /\ sLookbackDays = null
  /\ \E L \in LookbackChoices :
       /\ sLookbackDays' = L
       /\ sTouches' = touchesLookbackBoundary(sResult.streakStartDateKey,
                                             toDateKey(sAnchor - L * DAY_MS, sTz))
  /\ UNCHANGED <<sEvents, sTz, sAnchor, sResult, sBefore, sAdded>>
  /\ UNCHANGED <<pipeVars, loginVars, remindVars>>

StreakNext == ComputeStreak \/ AddSameDayEvent \/ CheckBoundary

----------------------------------------------------------------------------
(* The store (Convex tables), the provider, the job queue and the sync worker. *)
(* A table is the sequence of its rows in creation order. Every query and      *)
(* mutation is one atomic step (a Convex transaction); an action (a Node       *)
(* function) is a process that takes one step per awaited call.                *)

MAX_JOB_ATTEMPTS == 6

SYNC_SAFETY_WINDOW_MS == Ms(6 * 60 * 60 * 1000)

DEFAULT_COMMIT_PAGE_LIMIT == 8

\* per_page=100 of the commit listing
COMMITS_PER_PAGE == 100

WORKER_BATCH_SIZE == 8

WORKER_CONCURRENCY == 3

\* const maxRounds = 6 of runSyncWorker
maxRounds == 6

\* Math.min(args.limit, 20) of claimSyncJobs
CLAIM_TAKE_CAP == 20

\* .take(50) of enqueueSyncJob's scan for an unresolved initial backfill
DEDUPE_SCAN_TAKE == 50

\* batchSize * maxPages of computeCurrentStreakSnapshot
SNAPSHOT_SCAN_CAP == 256 * 160

Users == {"u1"}

\* the GitHub App installation of each user
InstallationOf(userId) == 1

Workers == {"w1", "w2"}

\* the least of a set of row indices, 0 when the set is empty: .first() and .unique()
FirstIndex(indices) ==
  IF indices = {} THEN 0 ELSE CHOOSE i \in indices : \A k \in indices : i <= k

\* the first n rows of a query's result: .take(n)
Take(rows, n) == SubSeq(rows, 1, Min(Len(rows), n))

----------------------------------------------------------------------------
(* github.ts: the mutations and queries, as functions of the tables *)

\* githubConnections .withIndex("by_user").first()
ConnectionIndexByUser(conns, userId) ==
  FirstIndex({i \in DOMAIN conns : conns[i].userId = userId})

\* githubConnections .withIndex("by_installation").first()
ConnectionIndexByInstallation(conns, installationId) ==
  FirstIndex({i \in DOMAIN conns : conns[i].installationId = installationId})

upsertAppConnection(conns, userId, installationId) ==
  LET i == ConnectionIndexByUser(conns, userId)
  IN  IF i # 0
        THEN [conns EXCEPT ![i] = [@ EXCEPT !.installationId = installationId,
                                            !.syncStatus = "idle",
                                            !.lastErrorCode = "",
                                            !.lastErrorMessage = ""]]
        ELSE Append(conns, [userId           |-> userId,
                            installationId   |-> installationId,
                            syncStatus       |-> "idle",
                            lastErrorCode    |-> "",
                            lastErrorMessage |-> "",
                            lastSyncedAt     |-> null,
                            historySyncedAt  |-> null,
                            syncedFromAt     |-> null,
                            syncedToAt       |-> null,
                            streakDays       |-> null])

setSyncStatus(conns, userId, status, errorCode, errorMessage) ==
  LET i == ConnectionIndexByUser(conns, userId)
  IN  IF i = 0
        THEN conns
        ELSE [conns EXCEPT ![i] = [@ EXCEPT !.syncStatus = status,
                                            !.lastErrorCode = errorCode,
                                            !.lastErrorMessage = errorMessage]]

\* the committedAt of the user's commit events, newest first, at most 160 pages of 256
ScannedCommittedAt(events, userId) ==
  LET Mine(e) == e.userId = userId
      mine == SelectSeq(events, Mine)
      all  == [i \in DOMAIN mine |-> mine[i].committedAt]
  IN  IF Len(all) <= SNAPSHOT_SCAN_CAP
        THEN all
        ELSE LET kept == {i \in DOMAIN all :
                            Cardinality({k \in DOMAIN all :
                               all[k] > all[i] \/ (all[k] = all[i] /\ k < i)})
                              < SNAPSHOT_SCAN_CAP}
             IN  [i \in 1..SNAPSHOT_SCAN_CAP |->
                    all[CHOOSE k \in kept : Cardinality({x \in kept : x < k}) = i - 1]]

\* lookbackDays is null when the argument is left undefined
computeCurrentStreakSnapshot(events, userId, anchorTimestamp, lookbackDays) ==
  LET timezone == "UTC"
      computation == computeCurrentStreakFromCommitEvents(
                       ScannedCommittedAt(events, userId), timezone, anchorTimestamp)
      lookbackStartDateKey ==
        IF lookbackDays # null
          THEN toDateKey(anchorTimestamp - lookbackDays * DAY_MS, timezone)
          ELSE NullKey
  IN  [streakDays |-> computation.streakDays,
       streakStartDateKey |-> computation.streakStartDateKey,
       lookbackStartDateKey |-> lookbackStartDateKey,
       touchesLookbackBoundary |->
         IF lookbackStartDateKey = NullKey
           THEN FALSE
           ELSE touchesLookbackBoundary(computation.streakStartDateKey,
                                        lookbackStartDateKey)]

\* args: timestamp, historySyncedAt, syncedFromAt, syncedToAt, streakDays (null when
\* undefined), syncStatus ("" when undefined)
markSynced(conns, events, userId, args) ==
  LET i == ConnectionIndexByUser(conns, userId)
  IN  IF i = 0
        THEN conns
        ELSE
          LET old == conns[i]
              streak == IF args.streakDays # null
                          THEN args.streakDays
                          ELSE computeCurrentStreakSnapshot(
                                 events, userId, args.timestamp, null).streakDays
          IN  [conns EXCEPT ![i] =
                [old EXCEPT
                   !.lastSyncedAt = args.timestamp,
                   !.syncStatus = IF args.syncStatus # "" THEN args.syncStatus ELSE "idle",
                   !.lastErrorCode = "",
                   !.lastErrorMessage = "",
                   !.historySyncedAt = IF args.historySyncedAt # null
                                         THEN args.historySyncedAt ELSE @,
                   !.syncedFromAt = IF args.syncedFromAt # null THEN args.syncedFromAt ELSE @,
                   !.syncedToAt = IF args.syncedToAt # null THEN args.syncedToAt ELSE @,
                   !.streakDays = streak]]

\* the value is appended whether or not the list holds it
uniquePush_Always(list, value) == Append(list, value)

uniquePush(list, value) ==
  IF \E i \in DOMAIN list : list[i] = value THEN list ELSE Append(list, value)

\* integer division that drops the fraction, where the source rounds
RoundDiv_Floor(a, b) == a \div b

\* Math.round of the quotient a / b of two naturals, b > 0
RoundDiv(a, b) == (2 * a + b) \div (2 * b)

\* no look-up of the (userId, sha) index: every call inserts
saveCommit_NoLookup(events, stats, userGoals, args) ==
  [inserted |-> TRUE,
   commitEvents |-> Append(events, [userId |-> args.userId, repo |-> args.repo,
                                    sha |-> args.sha,
                                    size |-> args.additions + args.deletions,
                                    committedAt |-> args.committedAt]),
   dailyStats |-> stats]

\* args: userId, repo, sha, additions, deletions, committedAt
saveCommit(events, stats, userGoals, args) ==
  LET same == {i \in DOMAIN events :
                 events[i].userId = args.userId /\ events[i].sha = args.sha}
  IN  IF FirstIndex(same) # 0
        THEN [inserted |-> FALSE, commitEvents |-> events, dailyStats |-> stats]
        ELSE
          LET size == args.additions + args.deletions
              row  == [userId |-> args.userId, repo |-> args.repo, sha |-> args.sha,
                       size |-> size, committedAt |-> args.committedAt]
              g == FirstIndex({i \in DOMAIN userGoals :
                                 userGoals[i].userId = args.userId})
              timeZone == IF g # 0 THEN userGoals[g].timezone ELSE "UTC"
              dateKey == toDateKey(args.committedAt, timeZone)
              k == FirstIndex({i \in DOMAIN stats :
                                 stats[i].userId = args.userId /\ stats[i].date = dateKey})
          IN  [inserted |-> TRUE,
               commitEvents |-> Append(events, row),
               dailyStats |->
                 IF k = 0
                   THEN Append(stats, [userId |-> args.userId,
                                       date |-> dateKey,
                                       commitCount |-> 1,
                                       locChanged |-> size,
                                       avgCommitSize |-> size,
                                       reposTouched |-> <<args.repo>>])
                   ELSE [stats EXCEPT ![k] =
                          [@ EXCEPT !.commitCount = @ + 1,
                                    !.locChanged = @ + size,
                                    !.avgCommitSize =
                                       RoundDiv(stats[k].locChanged + size,
                                                stats[k].commitCount + 1),
                                    !.reposTouched = uniquePush(@, args.repo)]]]

\* githubSyncJobs rows. repoFullName and deliveryId are "" and lookbackDays is null
\* when the field is absent. claims and delays are the history of the row, read by no
\* operation: the number of claimSyncJobs calls that have returned it, and the delays
\* runAfter - now that failSyncJob has given it.
NewJob(id, args) ==
  [id |-> id, userId |-> args.userId, installationId |-> args.installationId,
   repoFullName |-> args.repoFullName, lookbackDays |-> args.lookbackDays,
   reason |-> args.reason, deliveryId |-> args.deliveryId, status |-> args.status,
   attempt |-> args.attempt, runAfter |-> args.runAfter, errorMessage |-> "",
   claims |-> 0, delays |-> << >>]

JobIndex(table, jobId) ==
  FirstIndex({i \in DOMAIN table : table[i].id = jobId})

\* the .take(50) scan of one status, and the .find over it
UnresolvedBackfillFound(table, args, status) ==
  LET InStatus(j) == j.installationId = args.installationId /\ j.status = status
      existing == Take(SelectSeq(table, InStatus), DEDUPE_SCAN_TAKE)
  IN  \E i \in DOMAIN existing :
        /\ existing[i].reason = "initial_backfill"
        /\ existing[i].lookbackDays = args.lookbackDays

\* id is the id the inserted row gets
enqueueSyncJob(table, id, args) ==
  IF args.deliveryId # "" /\ \E i \in DOMAIN table : table[i].deliveryId = args.deliveryId
    THEN table
    ELSE IF /\ args.reason = "initial_backfill"
            /\ args.lookbackDays # null
            /\ \E status \in {"pending", "processing"} :
                 UnresolvedBackfillFound(table, args, status)
           THEN table
           ELSE Append(table, NewJob(id, args))

\* the due jobs whatever their status: the index range of claimSyncJobs without its
\* status
DueJobs_AnyStatus(table, nowArg) ==
  LET due == {i \in DOMAIN table : table[i].runAfter <= nowArg}
      Before(a, b) == \/ table[a].runAfter < table[b].runAfter
                      \/ table[a].runAfter = table[b].runAfter /\ a < b
      Rank(i) == Cardinality({k \in due : Before(k, i)})
  IN  [r \in 1..Cardinality(due) |-> CHOOSE i \in due : Rank(i) = r - 1]

\* the indices of the pending jobs due at nowArg, in by_status_runAfter order
DueJobs(table, nowArg) ==
  LET due == {i \in DOMAIN table :
                table[i].status = "pending" /\ table[i].runAfter <= nowArg}
      Before(a, b) == \/ table[a].runAfter < table[b].runAfter
                      \/ table[a].runAfter = table[b].runAfter /\ a < b
      Rank(i) == Cardinality({k \in due : Before(k, i)})
  IN  [r \in 1..Cardinality(due) |-> CHOOSE i \in due : Rank(i) = r - 1]

ClaimedJob(job) ==
  [id |-> job.id, userId |-> job.userId, installationId |-> job.installationId,
   repoFullName |-> job.repoFullName, lookbackDays |-> job.lookbackDays,
   reason |-> job.reason, attempt |-> job.attempt]

\* the claim returns the due jobs and leaves their status as it is
claimSyncJobs_NoPatch(table, limit, nowArg) ==
  LET due == DueJobs(table, nowArg)
      n == Min(Len(due), Max(1, Min(limit, CLAIM_TAKE_CAP)))
  IN  [claimed |-> [r \in 1..n |-> ClaimedJob(table[due[r]])],
       jobs |-> [i \in DOMAIN table |->
                   IF \E r \in 1..n : due[r] = i
                     THEN [table[i] EXCEPT !.claims = @ + 1]
                     ELSE table[i]]]

\* the claim without its take: every due job is claimed
claimSyncJobs_NoTake(table, limit, nowArg) ==
  LET due == DueJobs(table, nowArg)
  IN  [claimed |-> [r \in 1..Len(due) |-> ClaimedJob(table[due[r]])],
       jobs |-> [i \in DOMAIN table |->
                   IF \E r \in 1..Len(due) : due[r] = i
                     THEN [table[i] EXCEPT !.status = "processing", !.claims = @ + 1]
                     ELSE table[i]]]

claimSyncJobs(table, limit, nowArg) ==
  LET due == DueJobs(table, nowArg)
      n == Min(Len(due), Max(1, Min(limit, CLAIM_TAKE_CAP)))
  IN  [claimed |-> [r \in 1..n |-> ClaimedJob(table[due[r]])],
       jobs |-> [i \in DOMAIN table |->
                   IF \E r \in 1..n : due[r] = i
                     THEN [table[i] EXCEPT !.status = "processing", !.claims = @ + 1]
                     ELSE table[i]]]

\* ctx.db.patch throws when the row is gone: Throws tells whether a patch of jobId does
Throws(table, jobId) == JobIndex(table, jobId) = 0

completeSyncJob(table, jobId) ==
  LET i == JobIndex(table, jobId)
  IN  IF i = 0 THEN table
      ELSE [table EXCEPT ![i] = [@ EXCEPT !.status = "completed", !.errorMessage = ""]]

\* Math.min(5 * 60 * 1000, 2 ** args.attempt * 5000)
backoffMs(attempt) == Min(Ms(5 * 60 * 1000), (2 ^ attempt) * Ms(5000))

\* failSyncJob without its status: the attempt and the message are patched, the job
\* stays where claimSyncJobs left it
failSyncJob_NoRequeue(table, jobId, attempt, errorMessage, nowArg) ==
  LET i == JobIndex(table, jobId)
  IN  IF i = 0 THEN table
      ELSE [table EXCEPT ![i] = [@ EXCEPT !.attempt = attempt,
                                          !.errorMessage = errorMessage]]

\* the job is given up one failure later
failSyncJob_OneMore(table, jobId, attempt, errorMessage, nowArg) ==
  LET i == JobIndex(table, jobId)
  IN  IF i = 0 THEN table
      ELSE IF attempt > MAX_JOB_ATTEMPTS
        THEN [table EXCEPT ![i] = [@ EXCEPT !.status = "failed", !.attempt = attempt,
                                            !.errorMessage = errorMessage]]
        ELSE LET runAfter == nowArg + backoffMs(attempt)
             IN  [table EXCEPT ![i] = [@ EXCEPT !.status = "pending", !.attempt = attempt,
                                                !.errorMessage = errorMessage,
                                                !.runAfter = runAfter,
                                                !.delays = Append(@, runAfter - nowArg)]]

failSyncJob(table, jobId, attempt, errorMessage, nowArg) ==
  LET i == JobIndex(table, jobId)
  IN  IF i = 0 THEN table
      ELSE IF attempt >= MAX_JOB_ATTEMPTS
        THEN [table EXCEPT ![i] = [@ EXCEPT !.status = "failed", !.attempt = attempt,
                                            !.errorMessage = errorMessage]]
        ELSE LET runAfter == nowArg + backoffMs(attempt)
             IN  [table EXCEPT ![i] = [@ EXCEPT !.status = "pending", !.attempt = attempt,
                                                !.errorMessage = errorMessage,
                                                !.runAfter = runAfter,
                                                !.delays = Append(@, runAfter - nowArg)]]

\* clearGithubData that leaves the dailyStats loop out
clearGithubData_KeepsStats(conns, events, stats, table, userId, installationId) ==
  LET NotMine(r) == r.userId # userId
      NotHere(j) == j.installationId # installationId
  IN  [connections |-> SelectSeq(conns, NotMine),
       commitEvents |-> SelectSeq(events, NotMine),
       dailyStats |-> stats,
       jobs |-> SelectSeq(table, NotHere)]

\* clearGithubData with clearConnection: true, as disconnect calls it: the delete
\* loops leave the rows of the other users and installations
clearGithubData(conns, events, stats, table, userId, installationId) ==
  LET NotMine(r) == r.userId # userId
      NotHere(j) == j.installationId # installationId
  IN  [connections |-> SelectSeq(conns, NotMine),
       commitEvents |-> SelectSeq(events, NotMine),
       dailyStats |-> SelectSeq(stats, NotMine),
       jobs |-> SelectSeq(table, NotHere)]

\* ingestWebhookEvent, once the delivery is known to be new and the connection found:
\* the tables after it. args: deliveryId, event, setupAction, repoFullName,
\* installationId; id is the id of the job it inserts.
IngestedTables(conns, events, stats, table, id, args, nowArg) ==
  LET c == ConnectionIndexByInstallation(conns, args.installationId)
      userId == conns[c].userId
      NotMine(r) == r.userId # userId
      NotHere(j) == j.installationId # args.installationId
      Job(reason, repo) ==
        NewJob(id, [userId |-> userId, installationId |-> args.installationId,
                    repoFullName |-> repo, lookbackDays |-> null, reason |-> reason,
                    deliveryId |-> args.deliveryId, status |-> "pending",
                    attempt |-> 0, runAfter |-> nowArg])
      syncing == [conns EXCEPT ![c] = [@ EXCEPT !.syncStatus = "syncing"]]
      same == [connections |-> conns, commitEvents |-> events, dailyStats |-> stats,
               jobs |-> table]
  IN  IF args.event = "installation" /\ args.setupAction = "deleted"
        THEN [connections |-> SelectSeq(conns, NotMine),
              commitEvents |-> SelectSeq(events, NotMine),
              dailyStats |-> SelectSeq(stats, NotMine),
              jobs |-> SelectSeq(table, NotHere)]
      ELSE IF args.event = "push"
        THEN [same EXCEPT !.jobs = Append(table, Job("push", args.repoFullName)),
                          !.connections = syncing]
      ELSE IF args.event = "installation_repositories"
        THEN [same EXCEPT !.jobs = Append(table, Job("installation_repositories", "")),
                          !.connections = syncing]
      ELSE IF args.event = "installation"
        THEN [same EXCEPT !.jobs = Append(table, Job("reconcile", "")),
                          !.connections = syncing]
      ELSE same

----------------------------------------------------------------------------
(* githubNode.ts: the provider and processJob's computations *)

Repos == <<"r1", "r2", "r3">>

\* A commit of the provider: ord is its place in the newest-first listing of its
\* repository. The provider is the sequence of the commits, repository by repository
\* in the order of Repos, newest first within a repository.
Commit(repo, sha, committedAt, ord) ==
  [repo |-> repo, sha |-> sha, committedAt |-> committedAt, additions |-> sha,
   deletions |-> 1, ord |-> ord]

\* the listing of a repository returns the commits since sinceTimestamp, newest first,
\* at most DEFAULT_COMMIT_PAGE_LIMIT pages of COMMITS_PER_PAGE
Listed(commit, sinceTimestamp, repoFullName) ==
  /\ commit.committedAt >= sinceTimestamp
  /\ commit.ord <= DEFAULT_COMMIT_PAGE_LIMIT * COMMITS_PER_PAGE
  /\ repoFullName = "" \/ commit.repo = repoFullName

\* the index of the next commit processJob's loops reach at or after from, 0 at the end
NextCommit(provider, from, sinceTimestamp, repoFullName) ==
  LET rest == from..Len(provider)
      Hit(k) == Listed(provider[k], sinceTimestamp, repoFullName)
  IN  IF \E k \in rest : Hit(k)
        THEN CHOOSE k \in rest : Hit(k) /\ \A m \in from..(k - 1) : ~Hit(m)
        ELSE 0

requestedLookbackDays(job) ==
  IF job.reason = "initial_backfill"
    THEN Max(INITIAL_BACKFILL_DAYS,
             Min(MAX_BACKFILL_DAYS,
                 IF job.lookbackDays # null THEN job.lookbackDays
                                            ELSE INITIAL_BACKFILL_DAYS))
    ELSE null

sinceTimestamp(job, lookback, nowArg, lastSyncedAt) ==
  IF job.reason = "initial_backfill"
    THEN nowArg - (IF lookback # null THEN lookback ELSE INITIAL_BACKFILL_DAYS) * DAY_MS
    ELSE Max(0, (IF lastSyncedAt # null THEN lastSyncedAt ELSE nowArg)
                  - SYNC_SAFETY_WINDOW_MS)

\* the backfill is extended whether or not the streak reaches the boundary
shouldExtendBackfill_Always(reason, touches, lookback) ==
  /\ reason = "initial_backfill"
  /\ (IF lookback # null THEN lookback ELSE INITIAL_BACKFILL_DAYS) < MAX_BACKFILL_DAYS

shouldExtendBackfill(reason, touches, lookback) ==
  /\ reason = "initial_backfill"
  /\ touches
  /\ (IF lookback # null THEN lookback ELSE INITIAL_BACKFILL_DAYS) < MAX_BACKFILL_DAYS

\* the follow-up job asks for the lookback of the job that enqueues it
nextLookbackDays_NoStep(extend, lookback) ==
  IF extend
    THEN Min(MAX_BACKFILL_DAYS,
             IF lookback # null THEN lookback ELSE INITIAL_BACKFILL_DAYS)
    ELSE null

nextLookbackDays(extend, lookback) ==
  IF extend
    THEN Min(MAX_BACKFILL_DAYS,
             (IF lookback # null THEN lookback ELSE INITIAL_BACKFILL_DAYS)
               + BACKFILL_STEP_DAYS)
    ELSE null

\* processJobWithRetry(ctx, job) at its first statement
NewTask(w, job) ==
  [w |-> w, job |-> job, pc |-> "start",
   userId |-> "", lastSyncedAt |-> null,     \* of the connection read at the start
   now |-> null, lookback |-> null, since |-> null,
   cursor |-> 0,                             \* the provider's commit the loops are at
   earliest |-> null, latest |-> null,
   saved |-> 0, inserted |-> FALSE,          \* saveCommit calls made, the last result
   streakDays |-> null, touches |-> FALSE,   \* of the streak snapshot
   extend |-> FALSE, next |-> null,          \* shouldExtendBackfill, nextLookbackDays
   enqueued |-> null,                        \* lookbackDays passed to enqueueSyncJob
   message |-> ""]

----------------------------------------------------------------------------
(* The steps of processJobWithRetry: one per awaited query or mutation *)

Step(t, t2) == tasks' = (tasks \ {t}) \cup {t2}

\* ctx.runQuery(getConnectionByInstallation); processJob:181-187
GetConnection(t) ==
  /\ t.pc = "start"
  /\ LET i == ConnectionIndexByInstallation(connections, t.job.installationId)
     IN  IF i = 0
           THEN Step(t, [t EXCEPT !.pc = "completeNoConnection"])
           ELSE Step(t, [t EXCEPT !.pc = "setSyncing",
                                  !.userId = connections[i].userId,
                                  !.lastSyncedAt = connections[i].lastSyncedAt,
                                  !.earliest = connections[i].syncedFromAt,
                                  !.latest = connections[i].syncedToAt])
  /\ UNCHANGED <<streakVars, loginVars, remindVars, hookResult>>
  /\ UNCHANGED <<now, goals, connections, commitEvents, dailyStats, jobs, jobSeq,
                 deliveries, github, setup, workers>>

\* ctx.runMutation(setSyncStatus, syncing); processJob:189-192
SetSyncing(t) ==
  /\ t.pc = "setSyncing"
  /\ connections' = setSyncStatus(connections, t.userId, "syncing", "", "")
  /\ Step(t, [t EXCEPT !.pc = "fetch"])
  /\ UNCHANGED <<streakVars, loginVars, remindVars, hookResult>>
  /\ UNCHANGED <<now, goals, commitEvents, dailyStats, jobs, jobSeq, deliveries,
                 github, setup, workers>>

\* the token, Date.now(), the repositories and the first listing; processJob:194-234
Fetch(t) ==
  /\ t.pc = "fetch"
  /\ LET lookback == requestedLookbackDays(t.job)
         since == sinceTimestamp(t.job, lookback, now, t.lastSyncedAt)
         first == NextCommit(github, 1, since, t.job.repoFullName)
     IN  Step(t, [t EXCEPT !.now = now, !.lookback = lookback, !.since = since,
                           !.cursor = first,
                           !.pc = IF first = 0 THEN "snapshot" ELSE "save"])
  /\ UNCHANGED <<streakVars, loginVars, remindVars, hookResult>>
  /\ UNCHANGED <<now, goals, connections, commitEvents, dailyStats, jobs, jobSeq,
                 deliveries, github, setup, workers>>

\* a request to the provider answers with an error status and githubRequest throws;
\* only jobs that have failed fewer than maxAttempt times meet it
RequestFails(t, maxAttempt) ==
  /\ t.pc \in {"fetch", "save"}
  /\ t.job.attempt < maxAttempt
  /\ Step(t, [t EXCEPT !.pc = "catch", !.message = "GitHub API error (500)"])
  /\ UNCHANGED <<streakVars, loginVars, remindVars, hookResult>>
  /\ UNCHANGED <<now, goals, connections, commitEvents, dailyStats, jobs, jobSeq,
                 deliveries, github, setup, workers>>

\* the provider answers a request with 401 and githubRequest throws, as it does for
\* every status that is not ok: the status is in the message alone; githubRequest:105-111
RequestUnauthorized(t) ==
  /\ t.pc \in {"fetch", "save"}
  /\ Step(t, [t EXCEPT !.pc = "catch", !.message = "GitHub API error (401)"])
  /\ UNCHANGED <<streakVars, loginVars, remindVars, hookResult>>
  /\ UNCHANGED <<now, goals, connections, commitEvents, dailyStats, jobs, jobSeq,
                 deliveries, github, setup, workers>>

\* the message of the error githubRequest throws for a status that is not ok
githubRequestError(status) ==
  CASE status = 401 -> "GitHub API error (401)"
    [] status = 404 -> "GitHub API error (404)"
    [] status = 409 -> "GitHub API error (409)"
    [] status = 422 -> "GitHub API error (422)"
    [] OTHER -> "GitHub API error (500)"

\* the catch block of fetchCommits rethrows whatever the status is
fetchCommits_Rethrows(status) == "throw"

\* the catch block of fetchCommits: the pages listed so far are returned when the
\* message holds (404), (409) or (422), and the error is thrown again otherwise
fetchCommits(status) ==
  IF status \in {404, 409, 422} THEN "return" ELSE "throw"

\* the index after the last commit of the repository of provider[k]
AfterRepo(provider, k) ==
  1 + SetMax({m \in DOMAIN provider : provider[m].repo = provider[k].repo})

\* the request for the page of a branch listing that would start with the commit at
\* the cursor answers with an error status: fetchCommits returns the pages before it
\* and the loops go on with the next repository, or the error is thrown to
\* processJobWithRetry; processJob:222-234
ListingAnswers(t, status, maxAttempt) ==
  /\ t.pc = "save"
  /\ github[t.cursor].ord % COMMITS_PER_PAGE = 1
  /\ IF fetchCommits(status) = "return"
       THEN \E further \in {NextCommit(github, AfterRepo(github, t.cursor), t.since,
                                       t.job.repoFullName)} :
              Step(t, [t EXCEPT !.message = githubRequestError(status),
                                !.cursor = further,
                                !.pc = IF further = 0 THEN "snapshot" ELSE "save"])
       ELSE /\ t.job.attempt < maxAttempt
            /\ Step(t, [t EXCEPT !.pc = "catch",
                                 !.message = githubRequestError(status)])
  /\ UNCHANGED <<streakVars, loginVars, remindVars, hookResult>>
  /\ UNCHANGED <<now, goals, connections, commitEvents, dailyStats, jobs, jobSeq,
                 deliveries, github, setup, workers>>

\* the commit's detail and ctx.runMutation(saveCommit); processJob:236-270
SaveCommit(t) ==
  /\ t.pc = "save"
  /\ \E commit \in {github[t.cursor]} :
     \E result \in {saveCommit(commitEvents, dailyStats, goals,
                               [userId |-> t.userId, repo |-> commit.repo,
                                sha |-> commit.sha, additions |-> commit.additions,
                                deletions |-> commit.deletions,
                                committedAt |-> commit.committedAt])} :
     \E further \in {NextCommit(github, t.cursor + 1, t.since, t.job.repoFullName)} :
       /\ commitEvents' = result.commitEvents
       /\ dailyStats' = result.dailyStats
       /\ Step(t, [t EXCEPT
                     !.earliest = IF @ = null THEN commit.committedAt
                                              ELSE Min(@, commit.committedAt),
                     !.latest = IF @ = null THEN commit.committedAt
                                            ELSE Max(@, commit.committedAt),
                     !.saved = @ + 1,
                     !.inserted = result.inserted,
                     !.cursor = further,
                     !.pc = IF further = 0 THEN "snapshot" ELSE "save"])
  /\ UNCHANGED <<streakVars, loginVars, remindVars, hookResult>>
  /\ UNCHANGED <<now, goals, connections, jobs, jobSeq, deliveries, github, setup,
                 workers>>

\* ctx.runQuery(computeCurrentStreakSnapshot) and the decision; processJob:273-284
Snapshot(t) ==
  /\ t.pc = "snapshot"
  /\ \E snapshot \in {computeCurrentStreakSnapshot(commitEvents, t.userId, t.now,
                                                   t.lookback)} :
     \E extend \in {shouldExtendBackfill(t.job.reason,
                                         snapshot.touchesLookbackBoundary,
                                         t.lookback)} :
       Step(t, [t EXCEPT !.streakDays = snapshot.streakDays,
                         !.touches = snapshot.touchesLookbackBoundary,
                         !.extend = extend,
                         !.next = nextLookbackDays(extend, t.lookback),
                         !.pc = IF extend THEN "enqueue" ELSE "markSynced"])
  /\ UNCHANGED <<streakVars, loginVars, remindVars, hookResult>>
  /\ UNCHANGED <<now, goals, connections, commitEvents, dailyStats, jobs, jobSeq,
                 deliveries, github, setup, workers>>

\* ctx.runMutation(enqueueSyncJob) of the next backfill; processJob:286-295
Enqueue(t) ==
  /\ t.pc = "enqueue"
  /\ jobs' = enqueueSyncJob(jobs, jobSeq + 1,
                            [userId |-> t.userId,
                             installationId |-> t.job.installationId,
                             repoFullName |-> "", lookbackDays |-> t.next,
                             reason |-> "initial_backfill", deliveryId |-> "",
                             status |-> "pending", attempt |-> 0, runAfter |-> t.now])
  /\ jobSeq' = jobSeq + (Len(jobs') - Len(jobs))
  /\ Step(t, [t EXCEPT !.enqueued = t.next, !.pc = "markSynced"])
  /\ UNCHANGED <<streakVars, loginVars, remindVars, hookResult>>
  /\ UNCHANGED <<now, goals, connections, commitEvents, dailyStats, deliveries,
                 github, setup, workers>>

\* ctx.runMutation(markSynced); processJob:320-329
MarkSynced(t) ==
  /\ t.pc = "markSynced"
  /\ connections' =
       markSynced(connections, commitEvents, t.userId,
                  [timestamp |-> t.now,
                   historySyncedAt |-> IF t.job.reason = "initial_backfill" /\ ~t.extend
                                         THEN t.now ELSE null,
                   syncedFromAt |-> t.earliest,
                   syncedToAt |-> t.latest,
                   streakDays |-> t.streakDays,
                   syncStatus |-> IF t.extend THEN "syncing" ELSE "idle"])
  /\ Step(t, [t EXCEPT !.pc = "complete"])
  /\ UNCHANGED <<streakVars, loginVars, remindVars, hookResult>>
  /\ UNCHANGED <<now, goals, commitEvents, dailyStats, jobs, jobSeq, deliveries,
                 github, setup, workers>>

\* ctx.runMutation(completeSyncJob); processJob:185 and :331
CompleteJob(t) ==
  /\ t.pc \in {"completeNoConnection", "complete"}
  /\ IF Throws(jobs, t.job.id)
       THEN /\ Step(t, [t EXCEPT !.pc = "catch", !.message = "document not found"])
            /\ UNCHANGED jobs
       ELSE /\ jobs' = completeSyncJob(jobs, t.job.id)
            /\ Step(t, [t EXCEPT !.pc = "done"])
  /\ UNCHANGED <<streakVars, loginVars, remindVars, hookResult>>
  /\ UNCHANGED <<now, goals, connections, commitEvents, dailyStats, jobSeq,
                 deliveries, github, setup, workers>>

\* the catch block's ctx.runMutation(setSyncStatus, error); processJobWithRetry:340-345
CatchSetError(t) ==
  /\ t.pc = "catch"
  /\ connections' = setSyncStatus(connections, t.job.userId, "error",
                                  "SYNC_JOB_FAILED", t.message)
  /\ Step(t, [t EXCEPT !.pc = "fail"])
  /\ UNCHANGED <<streakVars, loginVars, remindVars, hookResult>>
  /\ UNCHANGED <<now, goals, commitEvents, dailyStats, jobs, jobSeq, deliveries,
                 github, setup, workers>>

\* the catch block's ctx.runMutation(failSyncJob); processJobWithRetry:347-351. When
\* the job is gone the mutation throws, Promise.all rejects and runSyncWorker ends
\* with the error.
FailJob(t) ==
  /\ t.pc = "fail"
  /\ IF Throws(jobs, t.job.id)
       THEN /\ Step(t, [t EXCEPT !.pc = "crashed"])
            /\ workers' = [workers EXCEPT ![t.w] = [@ EXCEPT !.pc = "crashed"]]
            /\ UNCHANGED jobs
       ELSE /\ jobs' = failSyncJob(jobs, t.job.id, t.job.attempt + 1, t.message, now)
            /\ Step(t, [t EXCEPT !.pc = "done"])
            /\ UNCHANGED workers
  /\ UNCHANGED <<streakVars, loginVars, remindVars, hookResult>>
  /\ UNCHANGED <<now, goals, connections, commitEvents, dailyStats, jobSeq,
                 deliveries, github, setup>>

----------------------------------------------------------------------------
(* runSyncWorker: the rounds, and runBatches over the claimed jobs *)

IdleWorker == [pc |-> "idle", round |-> 0, claimed |-> << >>, next |-> 1]

\* runBatches without its slice: every claimed job from the index on is started
Batch_Whole(w, claimed, from) ==
  {NewTask(w, claimed[i]) : i \in from..Len(claimed)}

\* the tasks of claimed[from .. from + WORKER_CONCURRENCY - 1]: one batch of runBatches
Batch(w, claimed, from) ==
  {NewTask(w, claimed[i]) :
     i \in from..Min(Len(claimed), from + WORKER_CONCURRENCY - 1)}

\* the cron, the webhook route and completeGithubAppSetup each invoke runSyncWorker
StartWorker(w) ==
  /\ workers[w].pc = "idle"
  /\ workers' = [workers EXCEPT ![w] = [IdleWorker EXCEPT !.pc = "claim"]]
  /\ UNCHANGED <<streakVars, loginVars, remindVars, hookResult>>
  /\ UNCHANGED <<now, goals, connections, commitEvents, dailyStats, jobs, jobSeq,
                 deliveries, github, setup, tasks>>

\* ctx.runMutation(claimSyncJobs), the break, and the first batch; runSyncWorker:368-376
Claim(w) ==
  /\ workers[w].pc = "claim"
  /\ \E result \in {claimSyncJobs(jobs, WORKER_BATCH_SIZE, now)} :
         /\ jobs' = result.jobs
         /\ IF Len(result.claimed) = 0
              THEN /\ workers' = [workers EXCEPT ![w] = IdleWorker]
                   /\ UNCHANGED tasks
              ELSE /\ workers' = [workers EXCEPT ![w] =
                                   [@ EXCEPT !.pc = "batch",
                                             !.claimed = result.claimed,
                                             !.next = 1 + WORKER_CONCURRENCY]]
                   /\ tasks' = tasks \cup Batch(w, result.claimed, 1)
  /\ UNCHANGED <<streakVars, loginVars, remindVars, hookResult>>
  /\ UNCHANGED <<now, goals, connections, commitEvents, dailyStats, jobSeq,
                 deliveries, github, setup>>

\* Promise.all of the batch has resolved: the next batch, or the next round, or the
\* return after maxRounds rounds; runBatches:356-359, runSyncWorker:367
AdvanceWorker(w) ==
  /\ workers[w].pc = "batch"
  /\ \A t \in tasks : t.w = w => t.pc = "done"
  /\ LET mine == {t \in tasks : t.w = w}
         self == workers[w]
     IN  IF self.next <= Len(self.claimed)
           THEN /\ tasks' = (tasks \ mine) \cup Batch(w, self.claimed, self.next)
                /\ workers' = [workers EXCEPT ![w] =
                                [@ EXCEPT !.next = @ + WORKER_CONCURRENCY]]
           ELSE /\ tasks' = tasks \ mine
                /\ workers' = [workers EXCEPT ![w] =
                                IF self.round + 1 < maxRounds
                                  THEN [IdleWorker EXCEPT !.pc = "claim",
                                                          !.round = self.round + 1]
                                  ELSE IdleWorker]
  /\ UNCHANGED <<streakVars, loginVars, remindVars, hookResult>>
  /\ UNCHANGED <<now, goals, connections, commitEvents, dailyStats, jobs, jobSeq,
                 deliveries, github, setup>>

\* the invocation has ended with an error: what is left of its batch is dropped
Abandon(w) ==
  /\ workers[w].pc = "crashed"
  /\ tasks' = {t \in tasks : t.w # w}
  /\ workers' = [workers EXCEPT ![w] = IdleWorker]
  /\ UNCHANGED <<streakVars, loginVars, remindVars, hookResult>>
  /\ UNCHANGED <<now, goals, connections, commitEvents, dailyStats, jobs, jobSeq,
                 deliveries, github, setup>>

----------------------------------------------------------------------------
(* The callers: the signed-in user, the webhook route, the clock *)

\* completeGithubAppSetup, ctx.runMutation(upsertAppConnection); github.ts:32-38.
\* maxJobs bounds the jobs ever inserted.
SetupUpsert(u, maxJobs) ==
  /\ setup[u] = "idle"
  /\ jobSeq < maxJobs
  /\ connections' = upsertAppConnection(connections, u, InstallationOf(u))
  /\ setup' = [setup EXCEPT ![u] = "enqueue"]
  /\ UNCHANGED <<streakVars, loginVars, remindVars, hookResult>>
  /\ UNCHANGED <<now, goals, commitEvents, dailyStats, jobs, jobSeq, deliveries,
                 github, workers, tasks>>

\* completeGithubAppSetup, ctx.runMutation(enqueueSyncJob); github.ts:40-48
SetupEnqueue(u) ==
  /\ setup[u] = "enqueue"
  /\ jobs' = enqueueSyncJob(jobs, jobSeq + 1,
                            [userId |-> u, installationId |-> InstallationOf(u),
                             repoFullName |-> "",
                             lookbackDays |-> INITIAL_BACKFILL_DAYS,
                             reason |-> "initial_backfill", deliveryId |-> "",
                             status |-> "pending", attempt |-> 0, runAfter |-> now])
  /\ jobSeq' = jobSeq + (Len(jobs') - Len(jobs))
  /\ setup' = [setup EXCEPT ![u] = "setSyncing"]
  /\ UNCHANGED <<streakVars, loginVars, remindVars, hookResult>>
  /\ UNCHANGED <<now, goals, connections, commitEvents, dailyStats, deliveries,
                 github, workers, tasks>>

\* completeGithubAppSetup, ctx.runMutation(setSyncStatus, syncing); github.ts:49-52.
\* The runSyncWorker that follows is a StartWorker.
SetupSetSyncing(u) ==
  /\ setup[u] = "setSyncing"
  /\ connections' = setSyncStatus(connections, u, "syncing", "", "")
  /\ setup' = [setup EXCEPT ![u] = "idle"]
  /\ UNCHANGED <<streakVars, loginVars, remindVars, hookResult>>
  /\ UNCHANGED <<now, goals, commitEvents, dailyStats, jobs, jobSeq, deliveries,
                 github, workers, tasks>>

\* disconnect: getConnectionByUser and clearGithubData; github.ts:59-77
Disconnect(u) ==
  /\ ConnectionIndexByUser(connections, u) # 0
  /\ \E cleared \in
         {clearGithubData(connections, commitEvents, dailyStats, jobs, u,
            connections[ConnectionIndexByUser(connections, u)].installationId)} :
         /\ connections' = cleared.connections
         /\ commitEvents' = cleared.commitEvents
         /\ dailyStats' = cleared.dailyStats
         /\ jobs' = cleared.jobs
  /\ UNCHANGED <<streakVars, loginVars, remindVars, hookResult>>
  /\ UNCHANGED <<now, goals, jobSeq, deliveries, github, setup, workers, tasks>>

\* ingestWebhookEvent without the by_delivery lookup: every delivery is taken as new
IngestWebhook_NoDedupe(args, maxJobs) ==
  /\ args.deliveryId <= Cardinality(deliveries) + 1
  /\ jobSeq < maxJobs
  /\ deliveries' = deliveries \cup {args.deliveryId}
  /\ hookResult' = [accepted |-> TRUE, duplicate |-> FALSE]
  /\ IF ConnectionIndexByInstallation(connections, args.installationId) = 0
       THEN UNCHANGED <<connections, commitEvents, dailyStats, jobs, jobSeq>>
       ELSE \E after \in {IngestedTables(connections, commitEvents, dailyStats,
                                           jobs, jobSeq + 1, args, now)} :
                /\ connections' = after.connections
                /\ commitEvents' = after.commitEvents
                /\ dailyStats' = after.dailyStats
                /\ jobs' = after.jobs
                /\ jobSeq' = IF \E i \in DOMAIN after.jobs : after.jobs[i].id = jobSeq + 1
                               THEN jobSeq + 1 ELSE jobSeq
  /\ UNCHANGED <<streakVars, loginVars, remindVars>>
  /\ UNCHANGED <<now, goals, github, setup, workers, tasks>>

\* ingestWebhookEvent with the forward secret; github.ts:256-407. Deliveries are
\* numbered: a new one carries the next number, an old one is a redelivery.
IngestWebhook(args, maxJobs) ==
  /\ args.deliveryId <= Cardinality(deliveries) + 1
  /\ jobSeq < maxJobs
  /\ IF args.deliveryId \in deliveries
       THEN /\ hookResult' = [accepted |-> TRUE, duplicate |-> TRUE]
            /\ UNCHANGED <<connections, commitEvents, dailyStats, jobs, jobSeq,
                           deliveries>>
       ELSE /\ deliveries' = deliveries \cup {args.deliveryId}
            /\ hookResult' = [accepted |-> TRUE, duplicate |-> FALSE]
            /\ IF ConnectionIndexByInstallation(connections, args.installationId) = 0
                 THEN UNCHANGED <<connections, commitEvents, dailyStats, jobs, jobSeq>>
                 ELSE \E after \in {IngestedTables(connections, commitEvents, dailyStats,
                                                     jobs, jobSeq + 1, args, now)} :
                          /\ connections' = after.connections
                          /\ commitEvents' = after.commitEvents
                          /\ dailyStats' = after.dailyStats
                          /\ jobs' = after.jobs
                          /\ jobSeq' = IF \E i \in DOMAIN after.jobs :
                                            after.jobs[i].id = jobSeq + 1
                                         THEN jobSeq + 1 ELSE jobSeq
  /\ UNCHANGED <<streakVars, loginVars, remindVars>>
  /\ UNCHANGED <<now, goals, github, setup, workers, tasks>>

\* a push to repository repo of installation 1, as delivery deliveryId
Push(deliveryId, repo) ==
  [deliveryId |-> deliveryId, event |-> "push", setupAction |-> "",
   repoFullName |-> repo, installationId |-> 1]

\* the installation has been deleted on the provider's side
Uninstall(deliveryId) ==
  [deliveryId |-> deliveryId, event |-> "installation", setupAction |-> "deleted",
   repoFullName |-> "", installationId |-> 1]

\* the deliveries of installation 1 that carry the number deliveryId: a push, a
\* change of the repository selection, and the installation created or deleted
Deliveries(deliveryId) ==
  {Push(deliveryId, "r2"),
   [deliveryId |-> deliveryId, event |-> "installation_repositories",
    setupAction |-> "added", repoFullName |-> "", installationId |-> 1],
   [deliveryId |-> deliveryId, event |-> "installation",
    setupAction |-> "created", repoFullName |-> "", installationId |-> 1],
   Uninstall(deliveryId)}

\* the clock moves on to the time the next requeued job falls due
Tick ==
  /\ \E i \in DOMAIN jobs : jobs[i].status = "pending" /\ jobs[i].runAfter > now
  /\ now' = SetMin({jobs[i].runAfter : i \in {k \in DOMAIN jobs :
                       jobs[k].status = "pending" /\ jobs[k].runAfter > now}})
  /\ UNCHANGED <<streakVars, loginVars, remindVars, hookResult>>
  /\ UNCHANGED <<goals, connections, commitEvents, dailyStats, jobs, jobSeq,
                 deliveries, github, setup, workers, tasks>>

----------------------------------------------------------------------------
(* goals.ts and telegram.ts: goals and notification settings.                  *)
(* A JavaScript number (v.number(), a float64) is a record: kind is "finite",  *)
(* "NaN", "+Infinity" or "-Infinity", and halves is twice the value of a       *)
(* finite one, so that integers and the values half-way between them are told  *)
(* apart. kind "null" stands for null and undefined.                           *)

Halves(n) == [kind |-> "finite", halves |-> n]

\* the integer n as a JavaScript number
JsNum(n) == Halves(2 * n)

NaN == [kind |-> "NaN", halves |-> 0]

PosInfinity == [kind |-> "+Infinity", halves |-> 0]

NegInfinity == [kind |-> "-Infinity", halves |-> 0]

JsNull == [kind |-> "null", halves |-> 0]

\* a <= b, a < b and a === b of JavaScript numbers: false when either is NaN
JsLessEq(a, b) ==
  /\ a.kind # "NaN" /\ b.kind # "NaN"
  /\ \/ a.kind = "-Infinity"
     \/ b.kind = "+Infinity"
     \/ a.kind = "finite" /\ b.kind = "finite" /\ a.halves <= b.halves

JsLess(a, b) == a.kind # "NaN" /\ b.kind # "NaN" /\ ~JsLessEq(b, a)

JsEqual(a, b) == JsLessEq(a, b) /\ JsLessEq(b, a)

\* Math.round: the nearest integer, the upper one at a half; NaN and the infinities
\* are returned as they are
MathRound(x) ==
  IF x.kind = "finite" THEN Halves(2 * ((x.halves + 1) \div 2)) ELSE x

\* Math.max and Math.min of two numbers: NaN when either is NaN
MathMax(a, b) ==
  IF a.kind = "NaN" \/ b.kind = "NaN" THEN NaN
  ELSE IF JsLessEq(b, a) THEN a ELSE b

MathMin(a, b) ==
  IF a.kind = "NaN" \/ b.kind = "NaN" THEN NaN
  ELSE IF JsLessEq(a, b) THEN a ELSE b

\* lib.ts: clamp
clamp(value, min, max) == MathMin(max, MathMax(min, value))

\* a goals row; schema.ts:96-103
GoalsRow(userId, commitsPerDay, locPerDay, pushByHour, timezone) ==
  [userId |-> userId, commitsPerDay |-> commitsPerDay, locPerDay |-> locPerDay,
   pushByHour |-> pushByHour, timezone |-> timezone]

GoalsIndexByUser(rows, userId) ==
  FirstIndex({i \in DOMAIN rows : rows[i].userId = userId})

\* setGoals: the goals table after it. args: commitsPerDay, locPerDay, pushByHour,
\* timezone
setGoals(rows, userId, args) ==
  LET existing == GoalsIndexByUser(rows, userId)
      payload == GoalsRow(userId,
                          clamp(MathRound(args.commitsPerDay), JsNum(0), JsNum(100)),
                          clamp(MathRound(args.locPerDay), JsNum(0), JsNum(5000)),
                          clamp(MathRound(args.pushByHour), JsNum(0), JsNum(23)),
                          args.timezone)
  IN  IF existing # 0 THEN [rows EXCEPT ![existing] = payload]
                      ELSE Append(rows, payload)

TelegramIndexByUser(rows, userId) ==
  FirstIndex({i \in DOMAIN rows : rows[i].userId = userId})

\* a ?? b
Coalesce(a, b) == IF a.kind # "null" THEN a ELSE b

\* telegram.ts upsertConnection, called when a Telegram login completes: the
\* telegramConnections table after it. args: chatId, quietHoursStart and
\* quietHoursEnd (JsNull for null), timezone ("" for null)
upsertConnection(rows, userId, args) ==
  LET existing == TelegramIndexByUser(rows, userId)
      old == IF existing # 0 THEN rows[existing]
             ELSE [quietHoursStart |-> JsNull, quietHoursEnd |-> JsNull,
                   timezone |-> "", lastNotifiedAt |-> null]
      payload ==
        [userId |-> userId, chatId |-> args.chatId, enabled |-> TRUE,
         quietHoursStart |->
           Coalesce(args.quietHoursStart, Coalesce(old.quietHoursStart, JsNum(22))),
         quietHoursEnd |->
           Coalesce(args.quietHoursEnd, Coalesce(old.quietHoursEnd, JsNum(7))),
         timezone |-> IF args.timezone # "" THEN args.timezone
                      ELSE IF old.timezone # "" THEN old.timezone ELSE "UTC",
         lastNotifiedAt |-> old.lastNotifiedAt]
  IN  IF existing # 0 THEN [rows EXCEPT ![existing] = payload]
                      ELSE Append(rows, payload)

\* updateSettings, when the user has a connection (it throws NO_TELEGRAM_CONNECTION
\* otherwise): the telegramConnections table after it. args: enabled,
\* quietHoursStart, quietHoursEnd, timezone
updateSettings(rows, userId, args) ==
  LET i == TelegramIndexByUser(rows, userId)
  IN  [rows EXCEPT ![i] =
         [@ EXCEPT !.enabled = args.enabled,
                   !.quietHoursStart =
                      clamp(MathRound(args.quietHoursStart), JsNum(0), JsNum(23)),
                   !.quietHoursEnd =
                      clamp(MathRound(args.quietHoursEnd), JsNum(0), JsNum(23)),
                   !.timezone = args.timezone]]

\* the stamp is written to every row
markNotified_AllRows(rows, userId, timestamp) ==
  [i \in DOMAIN rows |-> [rows[i] EXCEPT !.lastNotifiedAt = timestamp]]

\* markNotified
markNotified(rows, userId, timestamp) ==
  LET i == TelegramIndexByUser(rows, userId)
  IN  IF i = 0 THEN rows
      ELSE [rows EXCEPT ![i] = [@ EXCEPT !.lastNotifiedAt = timestamp]]

\* the users who sign in and connect Telegram, in the order they connected
TelegramUsers == <<"u1", "u2">>

\* setGoals by signed-in user u; goals.ts:6-50. maxCalls bounds the setGoals and
\* updateSettings calls made.
SetGoals(u, args, maxCalls) ==
  /\ settingsCalls < maxCalls
  /\ settingsCalls' = settingsCalls + 1
  /\ goals' = setGoals(goals, u, args)
  /\ UNCHANGED <<telegramConnections, reminder, outbox, sendFaults>>
  /\ UNCHANGED <<streakVars, loginVars>>
  /\ UNCHANGED <<now, connections, commitEvents, dailyStats, jobs, jobSeq, deliveries,
                 hookResult, github, setup, workers, tasks>>

\* updateSettings by signed-in user u; telegram.ts:70-98
UpdateSettings(u, args, maxCalls) ==
  /\ settingsCalls < maxCalls
  /\ settingsCalls' = settingsCalls + 1
  /\ IF TelegramIndexByUser(telegramConnections, u) = 0
       THEN UNCHANGED telegramConnections
       ELSE telegramConnections' = updateSettings(telegramConnections, u, args)
  /\ UNCHANGED <<reminder, outbox, sendFaults>>
  /\ UNCHANGED <<streakVars, loginVars>>
  /\ UNCHANGED pipeVars

----------------------------------------------------------------------------
(* telegramNode.ts: the reminder engine, in its revision with the zero-push    *)
(* follow-ups (src/unnamed/part_008:642-824).                                  *)

\* a grace period of an hour
RECENT_COMMIT_GRACE_MS_Hour == Ms(60 * 60 * 1000)

RECENT_COMMIT_GRACE_MS == Ms(90 * 60 * 1000)

ZERO_PUSH_EXTRA_HOURS == {19, 20}

ZERO_PUSH_CRITICAL_HOURS == {22, 23}

\* the hour of the instant on the UTC clock, whatever the zone
hourInTimeZone_Utc(timestamp, timeZone, midnight) ==
  LET h == (timestamp % DAY_MS) \div HOUR_MS
  IN  IF h = 0 THEN midnight ELSE h

\* the two-digit hour Intl.DateTimeFormat("en-US", {hour12: false}) gives for an
\* instant in a zone. midnight is the number the runtime's formatter gives for the
\* first hour of the day: 0 or, with the h24 hour cycle, 24.
hourInTimeZone(timestamp, timeZone, midnight) ==
  LET h == ((timestamp + TzOffset(timeZone, timestamp)) % DAY_MS) \div HOUR_MS
  IN  IF h = 0 THEN midnight ELSE h

\* the en-CA date "YYYY-MM-DD" of an instant in a zone
dateKeyInTimeZone(timestamp, timeZone) == CivilFromDays(LocalDay(timestamp, timeZone))

\* isQuietHour without the wraparound branch
isQuietHour_NoWraparound(hour, start, end) ==
  /\ start.kind # "null" /\ end.kind # "null"
  /\ JsLessEq(start, JsNum(hour)) /\ JsLess(JsNum(hour), end)

isQuietHour(hour, start, end) ==
  IF start.kind = "null" \/ end.kind = "null" \/ JsEqual(start, end) THEN FALSE
  ELSE IF JsLess(start, end)
    THEN JsLessEq(start, JsNum(hour)) /\ JsLess(JsNum(hour), end)
  ELSE JsLessEq(start, JsNum(hour)) \/ JsLess(JsNum(hour), end)

\* what getReminderContext returns when there is no connection or it is disabled
NoContext ==
  [found |-> FALSE, chatId |-> "", quietHoursStart |-> JsNull, quietHoursEnd |-> JsNull,
   lastNotifiedAt |-> null, timeZone |-> "UTC", hasStats |-> FALSE, commitCount |-> 0,
   locChanged |-> 0, hasGoals |-> FALSE, commitsPerDay |-> JsNull,
   locPerDay |-> JsNull, pushByHour |-> JsNull, lastCommitAt |-> null]

\* telegram.ts getReminderContext, over the tables as they are at nowArg
getReminderContext(conns, userGoals, stats, events, userId, nowArg) ==
  LET c == TelegramIndexByUser(conns, userId)
  IN  IF c = 0 THEN NoContext
      ELSE IF ~conns[c].enabled THEN NoContext
      ELSE
        LET g == GoalsIndexByUser(userGoals, userId)
            timeZone == IF g # 0 THEN userGoals[g].timezone ELSE conns[c].timezone
            todayKey == toDateKey(nowArg, timeZone)
            k == FirstIndex({i \in DOMAIN stats :
                               stats[i].userId = userId /\ stats[i].date = todayKey})
            mine == {events[i].committedAt :
                       i \in {j \in DOMAIN events : events[j].userId = userId}}
        IN  [found |-> TRUE,
             chatId |-> conns[c].chatId,
             quietHoursStart |-> conns[c].quietHoursStart,
             quietHoursEnd |-> conns[c].quietHoursEnd,
             lastNotifiedAt |-> conns[c].lastNotifiedAt,
             timeZone |-> timeZone,
             hasStats |-> k # 0,
             commitCount |-> IF k # 0 THEN stats[k].commitCount ELSE 0,
             locChanged |-> IF k # 0 THEN stats[k].locChanged ELSE 0,
             hasGoals |-> g # 0,
             commitsPerDay |-> IF g # 0 THEN userGoals[g].commitsPerDay ELSE JsNull,
             locPerDay |-> IF g # 0 THEN userGoals[g].locPerDay ELSE JsNull,
             pushByHour |-> IF g # 0 THEN userGoals[g].pushByHour ELSE JsNull,
             lastCommitAt |-> IF mine = {} THEN null ELSE SetMax(mine)]

\* the body of the loop of sendSmartReminders for one reminder context, up to the
\* message: kind is "none" where the code continues with the next connection
Decision(context, lastNotifiedAt, nowArg, midnight) ==
  LET hour == hourInTimeZone(nowArg, context.timeZone, midnight)
      commitGoal == Coalesce(context.commitsPerDay, JsNum(1))
      locGoal == Coalesce(context.locPerDay, JsNum(50))
      pushByHour == Coalesce(context.pushByHour, JsNum(18))
      commitCount == context.commitCount
      locChanged == context.locChanged
      needsCommit == JsLess(JsNum(0), commitGoal) /\ JsLess(JsNum(commitCount), commitGoal)
      needsLoc == JsLess(JsNum(0), locGoal) /\ JsLess(JsNum(locChanged), locGoal)
      missedGoals == /\ JsLess(JsNum(0), commitGoal) \/ JsLess(JsNum(0), locGoal)
                     /\ needsCommit \/ needsLoc
      noPushesToday == commitCount = 0
      shouldSendNormalReminder == JsEqual(JsNum(hour), pushByHour) /\ missedGoals
      shouldSendZeroPushFollowUp == noPushesToday /\ hour \in ZERO_PUSH_EXTRA_HOURS
      shouldSendCriticalZeroPush == noPushesToday /\ hour \in ZERO_PUSH_CRITICAL_HOURS
      sameHour ==
        /\ lastNotifiedAt > 0
        /\ dateKeyInTimeZone(lastNotifiedAt, context.timeZone)
             = dateKeyInTimeZone(nowArg, context.timeZone)
        /\ hourInTimeZone(lastNotifiedAt, context.timeZone, midnight) = hour
      kind ==
        IF ~context.found THEN "none"
        ELSE IF context.chatId = "" THEN "none"
        ELSE IF isQuietHour(hour, context.quietHoursStart, context.quietHoursEnd)
          THEN "none"
        ELSE IF context.lastCommitAt > 0
                /\ nowArg - context.lastCommitAt < RECENT_COMMIT_GRACE_MS THEN "none"
        ELSE IF /\ ~shouldSendNormalReminder
                /\ ~shouldSendZeroPushFollowUp
                /\ ~shouldSendCriticalZeroPush THEN "none"
        ELSE IF sameHour THEN "none"
        ELSE IF ~shouldSendZeroPushFollowUp /\ ~shouldSendCriticalZeroPush /\ ~missedGoals
          THEN "none"
        ELSE IF shouldSendCriticalZeroPush THEN "critical"
        ELSE IF shouldSendZeroPushFollowUp THEN "alert"
        ELSE "nudge"
  IN  [kind |-> kind, hour |-> hour]

\* the loop without the comparison with lastNotifiedAt
Decide_NoHourGuard(context, nowArg, midnight) ==
  Decision(context, null, nowArg, midnight)

\* the loop body with the lastNotifiedAt of the context it destructures
Decide(context, nowArg, midnight) ==
  Decision(context, context.lastNotifiedAt, nowArg, midnight)

\* sendSmartReminders is not running. midnight is the runtime's hour number of
\* midnight, see hourInTimeZone.
IdleReminder ==
  [pc |-> "idle", list |-> << >>, pos |-> 0, evaluated |-> 0, notified |-> 0,
   context |-> NoContext, at |-> null, hour |-> 0, kind |-> "none", midnight |-> 0]

\* the loop goes on to the next connection, or returns
NextConnection(r) ==
  [r EXCEPT !.pos = @ + 1,
            !.pc = IF r.pos >= Len(r.list) THEN "done" ELSE "evaluate"]

\* a tick of the telegramReminders cron: sendSmartReminders starts and reads
\* listConnections; part_008:735-737. The cron starts no run while the previous one
\* is under way.
StartTick ==
  /\ reminder.pc \in {"idle", "done", "failed"}
  /\ reminder' =
       [IdleReminder EXCEPT
          !.midnight = reminder.midnight,
          !.list = [i \in DOMAIN telegramConnections |-> telegramConnections[i].userId],
          !.pos = 1,
          !.pc = IF telegramConnections = << >> THEN "done" ELSE "evaluate"]
  /\ UNCHANGED <<telegramConnections, outbox, sendFaults, settingsCalls>>
  /\ UNCHANGED <<streakVars, loginVars>>
  /\ UNCHANGED pipeVars

\* one connection of the loop, from getReminderContext to the message;
\* part_008:738-813
Evaluate ==
  /\ reminder.pc = "evaluate"
  /\ \E context \in {getReminderContext(telegramConnections, goals, dailyStats,
                                        commitEvents, reminder.list[reminder.pos], now)} :
     \E decision \in {Decide(context, now, reminder.midnight)} :
       reminder' =
         IF decision.kind = "none"
           THEN NextConnection([reminder EXCEPT !.evaluated = @ + 1,
                                                !.context = context,
                                                !.at = now,
                                                !.hour = decision.hour,
                                                !.kind = "none"])
           ELSE [reminder EXCEPT !.evaluated = @ + 1,
                                 !.context = context,
                                 !.at = now,
                                 !.hour = decision.hour,
                                 !.kind = decision.kind,
                                 !.pc = "send"]
  /\ UNCHANGED <<telegramConnections, outbox, sendFaults, settingsCalls>>
  /\ UNCHANGED <<streakVars, loginVars>>
  /\ UNCHANGED pipeVars

\* sendTelegramMessage, answered with a 2xx status; part_008:665-681, 815
SendAccepted ==
  /\ reminder.pc = "send"
  /\ outbox' = Append(outbox, [userId |-> reminder.list[reminder.pos],
                               chatId |-> reminder.context.chatId,
                               kind |-> reminder.kind,
                               at |-> reminder.at,
                               hour |-> reminder.hour,
                               timeZone |-> reminder.context.timeZone])
  /\ reminder' = [reminder EXCEPT !.pc = "mark"]
  /\ UNCHANGED <<telegramConnections, sendFaults, settingsCalls>>
  /\ UNCHANGED <<streakVars, loginVars>>
  /\ UNCHANGED pipeVars

\* sendTelegramMessage, answered with another status or not at all: it throws, no
\* try block encloses the call, and the action ends with the error;
\* part_008:674-680, 815. maxFaults bounds the requests that fail.
SendRefused(maxFaults) ==
  /\ reminder.pc = "send"
  /\ sendFaults < maxFaults
  /\ sendFaults' = sendFaults + 1
  /\ reminder' = [reminder EXCEPT !.pc = "failed"]
  /\ UNCHANGED <<telegramConnections, outbox, settingsCalls>>
  /\ UNCHANGED <<streakVars, loginVars>>
  /\ UNCHANGED pipeVars

\* markNotified with the evaluation's timestamp, then the next connection;
\* part_008:816-820
MarkNotified ==
  /\ reminder.pc = "mark"
  /\ telegramConnections' =
       markNotified(telegramConnections, reminder.list[reminder.pos], reminder.at)
  /\ reminder' = NextConnection([reminder EXCEPT !.notified = @ + 1])
  /\ UNCHANGED <<outbox, sendFaults, settingsCalls>>
  /\ UNCHANGED <<streakVars, loginVars>>
  /\ UNCHANGED pipeVars

\* time passes: half an hour, the interval of the telegramReminders cron, up to limit
HalfHourPasses(limit) ==
  /\ now + Ms(30 * 60 * 1000) <= limit
  /\ now' = now + Ms(30 * 60 * 1000)
  /\ UNCHANGED <<streakVars, loginVars, remindVars>>
  /\ UNCHANGED <<goals, connections, commitEvents, dailyStats, jobs, jobSeq,
                 deliveries, hookResult, github, setup, workers, tasks>>

----------------------------------------------------------------------------
(* telegramAuth.ts: the Telegram login sessions. A row of telegramLogins holds    *)
(* "" for a string field that is not set and null for a number that is not set.  *)
(* The bot talks in private chats, where the chat id is the account's id: the    *)
(* chatId of a telegramConnections row stands for its telegramUserId.            *)

isExpired(expiresAt, nowArg) == expiresAt <= nowArg

LoginIndexByToken(rows, token) ==
  FirstIndex({i \in DOMAIN rows : rows[i].token = token})

\* telegram.ts getConnectionByTelegramUserId: the index of the row, 0 for null
getConnectionByTelegramUserId(rows, telegramUserId) ==
  FirstIndex({i \in DOMAIN rows : rows[i].chatId = telegramUserId})

\* the telegramLogins table after startLoginSession; args: token, telegramUserId, chatId
startLoginSession(rows, args, nowArg) ==
  LET i == LoginIndexByToken(rows, args.token)
  IN  IF i = 0 THEN rows
      ELSE IF isExpired(rows[i].expiresAt, nowArg)
        THEN [rows EXCEPT ![i] = [@ EXCEPT !.status = "expired"]]
      ELSE IF rows[i].telegramUserId # "" /\ rows[i].telegramUserId # args.telegramUserId
        THEN [rows EXCEPT ![i] = [@ EXCEPT !.status = "rejected",
                                           !.errorCode = "TOKEN_IN_USE"]]
      ELSE [rows EXCEPT ![i] =
              [@ EXCEPT !.status = IF @ = "pending" THEN "started" ELSE @,
                        !.telegramUserId = args.telegramUserId,
                        !.chatId = args.chatId]]

\* the telegramLogins and telegramConnections tables after confirmLoginSession;
\* args: token, telegramUserId, chatId
confirmLoginSession(rows, conns, args, nowArg) ==
  LET i == LoginIndexByToken(rows, args.token)
      same == [telegramLogins |-> rows, telegramConnections |-> conns]
  IN  IF i = 0 THEN same
      ELSE IF isExpired(rows[i].expiresAt, nowArg)
        THEN [same EXCEPT !.telegramLogins =
                [rows EXCEPT ![i] = [@ EXCEPT !.status = "expired"]]]
      ELSE IF rows[i].telegramUserId # "" /\ rows[i].telegramUserId # args.telegramUserId
        THEN [same EXCEPT !.telegramLogins =
                [rows EXCEPT ![i] = [@ EXCEPT !.status = "rejected",
                                              !.errorCode = "TELEGRAM_MISMATCH"]]]
      ELSE IF rows[i].status = "consumed" THEN same
      ELSE
        LET session == rows[i]
            connect == session.purpose = "connect" /\ session.requestedUserId # ""
            existing == getConnectionByTelegramUserId(conns, args.telegramUserId)
            linked == /\ connect
                      /\ existing # 0
                      /\ conns[existing].userId # session.requestedUserId
            nextStatus == IF linked THEN "rejected" ELSE "confirmed"
        IN  [telegramLogins |->
               [rows EXCEPT ![i] =
                  [@ EXCEPT !.status = nextStatus,
                            !.errorCode = IF linked THEN "ALREADY_LINKED" ELSE "",
                            !.telegramUserId = args.telegramUserId,
                            !.chatId = args.chatId,
                            !.confirmedAt = IF nextStatus = "confirmed" THEN nowArg
                                                                        ELSE @]],
             telegramConnections |->
               IF connect /\ ~linked
                 THEN upsertConnection(conns, session.requestedUserId,
                                       [chatId |-> args.chatId,
                                        quietHoursStart |-> JsNull,
                                        quietHoursEnd |-> JsNull, timezone |-> ""])
                 ELSE conns]

\* the telegramLogins and telegramConnections tables after completeSignInLink
completeSignInLink(rows, conns, token, userId, nowArg) ==
  LET i == LoginIndexByToken(rows, token)
      same == [telegramLogins |-> rows, telegramConnections |-> conns]
  IN  IF i = 0 THEN same
      ELSE IF rows[i].status # "confirmed" THEN same
      ELSE IF rows[i].purpose # "signin" THEN same
      ELSE IF isExpired(rows[i].expiresAt, nowArg) THEN same
      ELSE IF rows[i].telegramUserId = "" \/ rows[i].chatId = "" THEN same
      ELSE
        LET existing == getConnectionByTelegramUserId(conns, rows[i].telegramUserId)
        IN  IF existing # 0 /\ conns[existing].userId # userId THEN same
            ELSE [telegramLogins |->
                    [rows EXCEPT ![i] = [@ EXCEPT !.status = "consumed",
                                                  !.consumedAt = nowArg,
                                                  !.requestedUserId = userId]],
                  telegramConnections |->
                    upsertConnection(conns, userId,
                                     [chatId |-> rows[i].chatId,
                                      quietHoursStart |-> JsNull,
                                      quietHoursEnd |-> JsNull, timezone |-> ""])]

\* the webhook route's /start with a token, from a Telegram account; route.ts:100
StartLoginSession(token, telegramUserId) ==
  /\ telegramLogins' = startLoginSession(telegramLogins,
                                         [token |-> token,
                                          telegramUserId |-> telegramUserId,
                                          chatId |-> telegramUserId], now)
  /\ UNCHANGED <<pipeVars, streakVars, remindVars>>

\* the webhook route's confirmation callback, from a Telegram account; route.ts:144
ConfirmLoginSession(token, telegramUserId) ==
  /\ \E result \in {confirmLoginSession(telegramLogins, telegramConnections,
                                         [token |-> token,
                                          telegramUserId |-> telegramUserId,
                                          chatId |-> telegramUserId], now)} :
       /\ telegramLogins' = result.telegramLogins
       /\ telegramConnections' = result.telegramConnections
  /\ UNCHANGED <<reminder, outbox, sendFaults, settingsCalls>>
  /\ UNCHANGED <<pipeVars, streakVars>>

\* the completion route, for the signed-in or newly created user; complete/route.ts:61
CompleteSignInLink(token, userId) ==
  /\ \E result \in {completeSignInLink(telegramLogins, telegramConnections, token,
                                        userId, now)} :
       /\ telegramLogins' = result.telegramLogins
       /\ telegramConnections' = result.telegramConnections
  /\ UNCHANGED <<reminder, outbox, sendFaults, settingsCalls>>
  /\ UNCHANGED <<pipeVars, streakVars>>

\* time passes: five minutes, up to limit
FiveMinutesPass(limit) ==
  /\ now + Ms(5 * 60 * 1000) <= limit
  /\ now' = now + Ms(5 * 60 * 1000)
  /\ UNCHANGED <<streakVars, loginVars, remindVars>>
  /\ UNCHANGED <<goals, connections, commitEvents, dailyStats, jobs, jobSeq,
                 deliveries, hookResult, github, setup, workers, tasks>>

----------------------------------------------------------------------------
(* The systems checked *)

\* the instant the runs start at: 2026-02-15T12:00:00Z
T0 == AnchorNoon

\* r1 holds commit 1; r2 holds commit 2, an hour old, and commit 1 again
SmallProvider ==
  << Commit("r1", 1, T0 - 20 * HOUR_MS, 1),
     Commit("r2", 2, T0 - HOUR_MS, 1),
     Commit("r2", 1, T0 - 20 * HOUR_MS, 2) >>

\* a repository holds as many days of the history of DailyProvider as a listing returns
DaysPerRepo == DEFAULT_COMMIT_PAGE_LIMIT * COMMITS_PER_PAGE

\* one commit a day for the last depth days and today, the oldest days in the last
\* repositories; the commit of a past day is made at 13:00Z
DailyProvider(depth) ==
  [i \in 1..(depth + 1) |->
     LET d == i - 1
     IN  Commit(Repos[(d \div DaysPerRepo) + 1], d + 1,
                IF d = 0 THEN T0 - HOUR_MS ELSE T0 - d * DAY_MS + HOUR_MS,
                (d % DaysPerRepo) + 1)]

\* no webhook has been answered yet
NoResponse == [accepted |-> FALSE, duplicate |-> FALSE]

\* nobody has connected Telegram and no reminder run is under way
RemindIdle ==
  /\ telegramConnections = << >>
  /\ reminder = IdleReminder
  /\ outbox = << >>
  /\ sendFaults = 0
  /\ settingsCalls = 0

\* the store before anybody has connected, over a given provider
EmptyStore(provider) ==
  /\ now = T0
  /\ connections = << >>
  /\ commitEvents = << >>
  /\ dailyStats = << >>
  /\ jobs = << >>
  /\ jobSeq = 0
  /\ deliveries = {}
  /\ hookResult = NoResponse
  /\ github = provider
  /\ setup = [u \in Users |-> "idle"]
  /\ workers = [w \in Workers |-> IdleWorker]
  /\ tasks = {}

\* the calculator is not in use
\* no login session has been created
LoginIdle == telegramLogins = << >>

StreakIdle ==
  /\ sEvents = << >>
  /\ sTz = "UTC"
  /\ sAnchor = AnchorNoon
  /\ sResult = NoResult
  /\ sBefore = NoResult
  /\ sLookbackDays = null
  /\ sTouches = FALSE
  /\ sAdded = 0

StreakStart ==
  /\ StreakInit
  /\ LoginIdle
  /\ RemindIdle
  /\ goals = << >>
  /\ EmptyStore(<< >>)

\* the streak calculator on its own
SpecStreak == StreakStart /\ [][StreakNext]_vars

MaxJobs == 2

MaxDeliveries == 1

MaxFaults == 1

Init ==
  /\ goals \in {<< >>, <<GoalsRow("u1", JsNum(1), JsNum(50), JsNum(18), "Asia/Tokyo")>>}
  /\ EmptyStore(SmallProvider)
  /\ StreakIdle
  /\ LoginIdle
  /\ RemindIdle

Next ==
  \/ \E u \in Users : SetupUpsert(u, MaxJobs)
  \/ \E u \in Users : SetupEnqueue(u)
  \/ \E u \in Users : SetupSetSyncing(u)
  \/ \E d \in 1..MaxDeliveries : IngestWebhook(Push(d, "r2"), MaxJobs)
  \/ StartWorker("w1")
  \/ Claim("w1")
  \/ AdvanceWorker("w1")
  \/ \E t \in tasks : GetConnection(t)
  \/ \E t \in tasks : SetSyncing(t)
  \/ \E t \in tasks : Fetch(t)
  \/ \E t \in tasks : SaveCommit(t)
  \/ \E t \in tasks : Snapshot(t)
  \/ \E t \in tasks : MarkSynced(t)
  \/ \E t \in tasks : CompleteJob(t)
  \/ \E t \in tasks : RequestFails(t, MaxFaults)
  \/ \E t \in tasks : CatchSetError(t)
  \/ \E t \in tasks : FailJob(t)
  \/ Tick

\* one worker with the backfill and a push job in one batch, and provider errors
Spec == Init /\ [][Next]_vars

MaxClaimJobs == 1

MaxClaimFaults == 2

ClaimInit ==
  /\ goals = << >>
  /\ EmptyStore(SmallProvider)
  /\ StreakIdle
  /\ LoginIdle
  /\ RemindIdle

ClaimNext ==
  \/ \E u \in Users : SetupUpsert(u, MaxClaimJobs)
  \/ \E u \in Users : SetupEnqueue(u)
  \/ \E u \in Users : SetupSetSyncing(u)
  \/ \E u \in Users : Disconnect(u)
  \/ \E w \in Workers : StartWorker(w)
  \/ \E w \in Workers : Claim(w)
  \/ \E w \in Workers : AdvanceWorker(w)
  \/ \E w \in Workers : Abandon(w)
  \/ \E t \in tasks : GetConnection(t)
  \/ \E t \in tasks : SetSyncing(t)
  \/ \E t \in tasks : Fetch(t)
  \/ \E t \in tasks : SaveCommit(t)
  \/ \E t \in tasks : Snapshot(t)
  \/ \E t \in tasks : MarkSynced(t)
  \/ \E t \in tasks : CompleteJob(t)
  \/ \E t \in tasks : RequestFails(t, MaxClaimFaults)
  \/ \E t \in tasks : CatchSetError(t)
  \/ \E t \in tasks : FailJob(t)
  \/ Tick

\* two workers after the same job, provider errors, and a disconnect
SpecClaim == ClaimInit /\ [][ClaimNext]_vars

MaxRetryJobs == 1

RetryNext ==
  \/ \E u \in Users : SetupUpsert(u, MaxRetryJobs)
  \/ \E u \in Users : SetupEnqueue(u)
  \/ \E u \in Users : SetupSetSyncing(u)
  \/ StartWorker("w1")
  \/ Claim("w1")
  \/ AdvanceWorker("w1")
  \/ \E t \in tasks : GetConnection(t)
  \/ \E t \in tasks : SetSyncing(t)
  \/ \E t \in tasks : Fetch(t)
  \/ \E t \in tasks : SaveCommit(t)
  \/ \E t \in tasks : Snapshot(t)
  \/ \E t \in tasks : MarkSynced(t)
  \/ \E t \in tasks : CompleteJob(t)
  \/ \E t \in tasks : RequestFails(t, MAX_JOB_ATTEMPTS)
  \/ \E t \in tasks : CatchSetError(t)
  \/ \E t \in tasks : FailJob(t)
  \/ Tick

\* one worker and a provider that may fail a job every time it is tried
SpecRetry == ClaimInit /\ [][RetryNext]_vars

MaxBacklogDeliveries == 50

MaxBacklogJobs == 53

\* the store when the first backfill of a user without commits has completed
SyncedOnce ==
  /\ now = T0
  /\ connections = << [userId |-> "u1", installationId |-> 1, syncStatus |-> "idle",
                       lastErrorCode |-> "", lastErrorMessage |-> "",
                       lastSyncedAt |-> T0, historySyncedAt |-> T0,
                       syncedFromAt |-> null, syncedToAt |-> null,
                       streakDays |-> 0] >>
  /\ commitEvents = << >>
  /\ dailyStats = << >>
  /\ jobs = << [id |-> 1, userId |-> "u1", installationId |-> 1,
                repoFullName |-> "", lookbackDays |-> INITIAL_BACKFILL_DAYS,
                reason |-> "initial_backfill", deliveryId |-> "",
                status |-> "completed", attempt |-> 0, runAfter |-> T0,
                errorMessage |-> "", claims |-> 1, delays |-> << >>] >>
  /\ jobSeq = 1
  /\ deliveries = {}
  /\ hookResult = NoResponse
  /\ github = << >>
  /\ setup = [u \in Users |-> "idle"]
  /\ workers = [w \in Workers |-> IdleWorker]
  /\ tasks = {}

BacklogInit ==
  /\ goals = << >>
  /\ SyncedOnce
  /\ StreakIdle
  /\ LoginIdle
  /\ RemindIdle

BacklogNext ==
  \/ \E u \in Users : SetupUpsert(u, MaxBacklogJobs)
  \/ \E u \in Users : SetupEnqueue(u)
  \/ \E u \in Users : SetupSetSyncing(u)
  \/ \E d \in 1..MaxBacklogDeliveries : IngestWebhook(Push(d, "r1"), MaxBacklogJobs)

\* pushes arrive and the user connects again while no worker runs
SpecBacklog == BacklogInit /\ [][BacklogNext]_vars

MaxHookJobs == 4

MaxHookDeliveries == 3

HookInit ==
  /\ goals = << >>
  /\ EmptyStore(SmallProvider)
  /\ StreakIdle
  /\ LoginIdle
  /\ RemindIdle

HookNext ==
  \/ \E u \in Users : SetupUpsert(u, MaxHookJobs)
  \/ \E u \in Users : SetupEnqueue(u)
  \/ \E u \in Users : SetupSetSyncing(u)
  \/ \E u \in Users : Disconnect(u)
  \/ \E d \in 1..MaxHookDeliveries : \E args \in Deliveries(d) :
       IngestWebhook(args, MaxHookJobs)

\* webhooks of every kind and their redeliveries, around connects and disconnects
SpecWebhook == HookInit /\ [][HookNext]_vars

MaxClearJobs == 2

ClearInit ==
  /\ goals = << >>
  /\ EmptyStore(SmallProvider)
  /\ StreakIdle
  /\ LoginIdle
  /\ RemindIdle

ClearNext ==
  \/ \E u \in Users : SetupUpsert(u, MaxClearJobs)
  \/ \E u \in Users : SetupEnqueue(u)
  \/ \E u \in Users : SetupSetSyncing(u)
  \/ \E u \in Users : Disconnect(u)
  \/ IngestWebhook(Uninstall(1), MaxClearJobs + 1)
  \/ StartWorker("w1")
  \/ Claim("w1")
  \/ AdvanceWorker("w1")
  \/ Abandon("w1")
  \/ \E t \in tasks : GetConnection(t)
  \/ \E t \in tasks : SetSyncing(t)
  \/ \E t \in tasks : Fetch(t)
  \/ \E t \in tasks : SaveCommit(t)
  \/ \E t \in tasks : Snapshot(t)
  \/ \E t \in tasks : MarkSynced(t)
  \/ \E t \in tasks : CompleteJob(t)
  \/ \E t \in tasks : CatchSetError(t)
  \/ \E t \in tasks : FailJob(t)

\* the user disconnects, or the installation is deleted, while one worker syncs
SpecClear == ClearInit /\ [][ClearNext]_vars

\* the days of history the provider holds
ChainDepths == {30, 100, 1900}

\* the store when completeGithubAppSetup has returned and no worker has run yet
Connected(provider) ==
  /\ now = T0
  /\ connections = << [userId |-> "u1", installationId |-> 1, syncStatus |-> "syncing",
                       lastErrorCode |-> "", lastErrorMessage |-> "",
                       lastSyncedAt |-> null, historySyncedAt |-> null,
                       syncedFromAt |-> null, syncedToAt |-> null,
                       streakDays |-> null] >>
  /\ commitEvents = << >>
  /\ dailyStats = << >>
  /\ jobs = << [id |-> 1, userId |-> "u1", installationId |-> 1,
                repoFullName |-> "", lookbackDays |-> INITIAL_BACKFILL_DAYS,
                reason |-> "initial_backfill", deliveryId |-> "",
                status |-> "pending", attempt |-> 0, runAfter |-> T0,
                errorMessage |-> "", claims |-> 0, delays |-> << >>] >>
  /\ jobSeq = 1
  /\ deliveries = {}
  /\ hookResult = NoResponse
  /\ github = provider
  /\ setup = [u \in Users |-> "idle"]
  /\ workers = [w \in Workers |-> IdleWorker]
  /\ tasks = {}

ChainInit ==
  /\ goals = << >>
  /\ \E depth \in ChainDepths : Connected(DailyProvider(depth))
  /\ StreakIdle
  /\ LoginIdle
  /\ RemindIdle

ChainNext ==
  \/ StartWorker("w1")
  \/ Claim("w1")
  \/ AdvanceWorker("w1")
  \/ \E t \in tasks : GetConnection(t)
  \/ \E t \in tasks : SetSyncing(t)
  \/ \E t \in tasks : Fetch(t)
  \/ \E t \in tasks : SaveCommit(t)
  \/ \E t \in tasks : Snapshot(t)
  \/ \E t \in tasks : Enqueue(t)
  \/ \E t \in tasks : MarkSynced(t)
  \/ \E t \in tasks : CompleteJob(t)

\* one worker takes the backfill as far back as the history reaches
SpecChain == ChainInit /\ [][ChainNext]_vars

MaxSettingsCalls == 2

\* the numbers a client sends: below the range, at a half, inside, above it, and the
\* float64 values that are not finite
NumberArgs ==
  {JsNum(0 - 1), Halves(1), JsNum(7), Halves(47), JsNum(6000), NaN, PosInfinity,
   NegInfinity}

NoSettingsArgs == [quietHoursStart |-> JsNull, quietHoursEnd |-> JsNull, timezone |-> ""]

\* u1 has connected Telegram with the default settings, u2 has not
SettingsInit ==
  /\ goals = << >>
  /\ EmptyStore(SmallProvider)
  /\ StreakIdle
  /\ LoginIdle
  /\ telegramConnections =
       upsertConnection(<< >>, "u1", NoSettingsArgs @@ [chatId |-> "chat-u1"])
  /\ reminder = IdleReminder
  /\ outbox = << >>
  /\ sendFaults = 0
  /\ settingsCalls = 0

SettingsNext ==
  \/ \E c, l, p \in NumberArgs :
       SetGoals("u1", [commitsPerDay |-> c, locPerDay |-> l, pushByHour |-> p,
                       timezone |-> "UTC"], MaxSettingsCalls)
  \/ \E u \in {"u1", "u2"} : \E s, e \in NumberArgs : \E on \in BOOLEAN :
       UpdateSettings(u, [enabled |-> on, quietHoursStart |-> s, quietHoursEnd |-> e,
                          timezone |-> "UTC"], MaxSettingsCalls)

\* setGoals and updateSettings calls with every kind of number
SpecSettings == SettingsInit /\ [][SettingsNext]_vars

MaxSendFaults == 1

MaxRemindSettings == 1

\* 17:30Z, half an hour before the default push-by hour
RemindStart == T0 + 5 * HOUR_MS + Ms(30 * 60 * 1000)

\* 01:00Z of the next day
RemindEnd == T0 + 13 * HOUR_MS

\* a commit of ten lines that u1 pushed at 17:00Z
EarlierCommit ==
  [userId |-> "u1", repo |-> "r1", sha |-> "early", additions |-> 7, deletions |-> 3,
   committedAt |-> T0 + 5 * HOUR_MS]

RemindGoalArgs ==
  {[commitsPerDay |-> JsNum(1), locPerDay |-> JsNum(50), pushByHour |-> JsNum(p),
    timezone |-> z] : p \in {0, 10}, z \in {"UTC", "Asia/Tokyo"}}

RemindSettingsArgs ==
  {[enabled |-> TRUE, quietHoursStart |-> JsNum(7), quietHoursEnd |-> JsNum(22),
    timezone |-> "UTC"],
   [enabled |-> TRUE, quietHoursStart |-> JsNum(0), quietHoursEnd |-> JsNum(0),
    timezone |-> "UTC"],
   [enabled |-> FALSE, quietHoursStart |-> JsNum(22), quietHoursEnd |-> JsNum(7),
    timezone |-> "UTC"]}

\* u1 and u2 have connected Telegram with the default quiet hours (22 to 7); u1 has no
\* goals (the zone of the connection, UTC, applies), u2 has set a push-by hour of 3 in
\* Tokyo; u1 has pushed nothing today or one commit at 17:00Z
RemindInit ==
  /\ now = RemindStart
  /\ connections = << >>
  /\ jobs = << >>
  /\ jobSeq = 0
  /\ deliveries = {}
  /\ hookResult = NoResponse
  /\ github = SmallProvider
  /\ setup = [u \in Users |-> "idle"]
  /\ workers = [w \in Workers |-> IdleWorker]
  /\ tasks = {}
  /\ StreakIdle
  /\ LoginIdle
  /\ goals = setGoals(<< >>, "u2",
                      [commitsPerDay |-> JsNum(1), locPerDay |-> JsNum(50),
                       pushByHour |-> JsNum(3), timezone |-> "Asia/Tokyo"])
  /\ \E pushed \in BOOLEAN :
       \E saved \in {saveCommit(<< >>, << >>, goals, EarlierCommit)} :
         /\ commitEvents = IF pushed THEN saved.commitEvents ELSE << >>
         /\ dailyStats = IF pushed THEN saved.dailyStats ELSE << >>
  /\ telegramConnections =
       upsertConnection(
         upsertConnection(<< >>, "u1", NoSettingsArgs @@ [chatId |-> "chat-u1"]),
         "u2", NoSettingsArgs @@ [chatId |-> "chat-u2"])
  /\ \E m \in {0, 24} : reminder = [IdleReminder EXCEPT !.midnight = m]
  /\ outbox = << >>
  /\ sendFaults = 0
  /\ settingsCalls = 0

RemindNext ==
  \/ StartTick
  \/ Evaluate
  \/ SendAccepted
  \/ SendRefused(MaxSendFaults)
  \/ MarkNotified
  \/ HalfHourPasses(RemindEnd)
  \/ \E u \in {"u1", "u2"} : \E args \in RemindGoalArgs :
       SetGoals(u, args, MaxRemindSettings)
  \/ \E u \in {"u1", "u2"} : \E args \in RemindSettingsArgs :
       UpdateSettings(u, args, MaxRemindSettings)

\* the reminder ticks of an evening and the night after it, with settings changes and
\* a refused send
SpecRemind == RemindInit /\ [][RemindNext]_vars

MaxOrphanFaults == 1

\* the row completeGithubAppSetup leaves behind: the connection, syncing
ConnectedAs(conns, userId, installationId) ==
  setSyncStatus(upsertAppConnection(conns, userId, installationId), userId, "syncing",
                "", "")

\* the initial backfill job completeGithubAppSetup enqueues
FirstBackfill(userId, installationId, nowArg) ==
  [userId |-> userId, installationId |-> installationId, repoFullName |-> "",
   lookbackDays |-> INITIAL_BACKFILL_DAYS, reason |-> "initial_backfill",
   deliveryId |-> "", status |-> "pending", attempt |-> 0, runAfter |-> nowArg]

\* u1 (installation 1) and u2 (installation 2) have both just completed the setup:
\* two connections, two pending initial backfill jobs
OrphanInit ==
  /\ goals = << >>
  /\ now = T0
  /\ connections = ConnectedAs(ConnectedAs(<< >>, "u1", 1), "u2", 2)
  /\ commitEvents = << >>
  /\ dailyStats = << >>
  /\ jobs = enqueueSyncJob(enqueueSyncJob(<< >>, 1, FirstBackfill("u1", 1, T0)),
                           2, FirstBackfill("u2", 2, T0))
  /\ jobSeq = 2
  /\ deliveries = {}
  /\ hookResult = NoResponse
  /\ github = SmallProvider
  /\ setup = [u \in Users |-> "idle"]
  /\ workers = [w \in Workers |-> IdleWorker]
  /\ tasks = {}
  /\ StreakIdle
  /\ LoginIdle
  /\ RemindIdle

OrphanNext ==
  \/ Disconnect("u1")
  \/ StartWorker("w1")
  \/ Claim("w1")
  \/ AdvanceWorker("w1")
  \/ Abandon("w1")
  \/ \E t \in tasks : GetConnection(t)
  \/ \E t \in tasks : SetSyncing(t)
  \/ \E t \in tasks : Fetch(t)
  \/ \E t \in tasks : SaveCommit(t)
  \/ \E t \in tasks : Snapshot(t)
  \/ \E t \in tasks : MarkSynced(t)
  \/ \E t \in tasks : CompleteJob(t)
  \/ \E t \in tasks : RequestFails(t, MaxOrphanFaults)
  \/ \E t \in tasks : CatchSetError(t)
  \/ \E t \in tasks : FailJob(t)
  \/ Tick

\* a step of the runSyncWorker invocation
WorkerStep ==
  \/ StartWorker("w1")
  \/ Claim("w1")
  \/ AdvanceWorker("w1")
  \/ Abandon("w1")

\* an awaited call of a job under way returns
TaskStep ==
  \E t \in tasks :
    \/ GetConnection(t)
    \/ SetSyncing(t)
    \/ Fetch(t)
    \/ SaveCommit(t)
    \/ Snapshot(t)
    \/ MarkSynced(t)
    \/ CompleteJob(t)
    \/ CatchSetError(t)
    \/ FailJob(t)

\* the job of the task is under way: an awaited call of processJobWithRetry is
\* outstanding, and TaskStep is enabled
Running(t) ==
  t.pc \in {"start", "setSyncing", "fetch", "save", "snapshot", "markSynced",
            "complete", "completeNoConnection", "catch", "fail"}

\* the cron keeps invoking runSyncWorker and the invocation keeps running, every
\* awaited call of a job under way returns (weak fairness of TaskStep, its
\* enabling condition written out), and time advances; the user and the provider's
\* errors are under no obligation
OrphanFairness ==
  /\ WF_vars(WorkerStep)
  /\ []<>(~\E t \in tasks : Running(t)) \/ []<><<TaskStep>>_vars
  /\ WF_vars(Tick)

\* two users' jobs in one batch of a worker that keeps being triggered, a disconnect
\* and a provider error
SpecOrphan == OrphanInit /\ [][OrphanNext]_vars /\ OrphanFairness

MaxExpandJobs == 3

\* the setup has returned for a user whose history is 100 days of daily commits
ExpandInit ==
  /\ goals = << >>
  /\ Connected(DailyProvider(100))
  /\ StreakIdle
  /\ LoginIdle
  /\ RemindIdle

ExpandNext ==
  \/ IngestWebhook(Push(1, "r1"), MaxExpandJobs)
  \/ StartWorker("w1")
  \/ Claim("w1")
  \/ AdvanceWorker("w1")
  \/ \E t \in tasks : GetConnection(t)
  \/ \E t \in tasks : SetSyncing(t)
  \/ \E t \in tasks : Fetch(t)
  \/ \E t \in tasks : SaveCommit(t)
  \/ \E t \in tasks : Snapshot(t)
  \/ \E t \in tasks : Enqueue(t)
  \/ \E t \in tasks : MarkSynced(t)
  \/ \E t \in tasks : CompleteJob(t)

\* a push arrives while the backfill chain of a long streak is under way
SpecExpand == ExpandInit /\ [][ExpandNext]_vars

MaxZoneJobs == 2

\* r1 holds commits 2 and 1, made an hour and twenty hours ago; r2 holds commit 3, two
\* hours old, and commit 1 again
ZoneProvider ==
  << Commit("r1", 2, T0 - HOUR_MS, 1),
     Commit("r1", 1, T0 - 20 * HOUR_MS, 2),
     Commit("r2", 3, T0 - 2 * HOUR_MS, 1),
     Commit("r2", 1, T0 - 20 * HOUR_MS, 2) >>

\* the setup has returned for a user who has saved goals with a time zone
ZoneInit ==
  /\ \E timezone \in TimeZones :
       goals = setGoals(<< >>, "u1",
                        [commitsPerDay |-> JsNum(1), locPerDay |-> JsNum(50),
                         pushByHour |-> JsNum(18), timezone |-> timezone])
  /\ Connected(ZoneProvider)
  /\ StreakIdle
  /\ LoginIdle
  /\ RemindIdle

ZoneNext ==
  \/ IngestWebhook(Push(1, "r2"), MaxZoneJobs)
  \/ StartWorker("w1")
  \/ Claim("w1")
  \/ AdvanceWorker("w1")
  \/ \E t \in tasks : GetConnection(t)
  \/ \E t \in tasks : SetSyncing(t)
  \/ \E t \in tasks : Fetch(t)
  \/ \E t \in tasks : SaveCommit(t)
  \/ \E t \in tasks : Snapshot(t)
  \/ \E t \in tasks : MarkSynced(t)
  \/ \E t \in tasks : CompleteJob(t)

\* the backfill and a push of a user whose time zone is not UTC
SpecZone == ZoneInit /\ [][ZoneNext]_vars

\* r1 holds commit 3, an hour old, and commit 1, made exactly 90 days ago; r2 holds
\* commit 2, two hours old
EdgeProvider ==
  << Commit("r1", 3, T0 - HOUR_MS, 1),
     Commit("r1", 1, T0 - INITIAL_BACKFILL_DAYS * DAY_MS, 2),
     Commit("r2", 2, T0 - 2 * HOUR_MS, 1) >>

EdgeInit ==
  /\ goals = << >>
  /\ Connected(EdgeProvider)
  /\ StreakIdle
  /\ LoginIdle
  /\ RemindIdle

\* the provider fails a request of a job that has saved at least one commit
EdgeNext ==
  \/ StartWorker("w1")
  \/ Claim("w1")
  \/ AdvanceWorker("w1")
  \/ \E t \in tasks : GetConnection(t)
  \/ \E t \in tasks : SetSyncing(t)
  \/ \E t \in tasks : Fetch(t)
  \/ \E t \in tasks : SaveCommit(t)
  \/ \E t \in tasks : Snapshot(t)
  \/ \E t \in tasks : MarkSynced(t)
  \/ \E t \in tasks : CompleteJob(t)
  \/ \E t \in tasks : t.saved >= 1 /\ RequestFails(t, MAX_JOB_ATTEMPTS)
  \/ \E t \in tasks : CatchSetError(t)
  \/ \E t \in tasks : FailJob(t)
  \/ Tick

\* the first backfill fails part-way and is retried after its backoff
SpecEdge == EdgeInit /\ [][EdgeNext]_vars

MaxTakePushes == 9

\* the tables after ingestWebhookEvent has taken the pushes 1..n, the second a push to
\* r1 and the others pushes to r2
RECURSIVE AfterPushes(_, _)
AfterPushes(n, base) ==
  IF n = 0 THEN base
  ELSE LET before == AfterPushes(n - 1, base)
       IN  IngestedTables(before.connections, before.commitEvents, before.dailyStats,
                          before.jobs, n + 1,
                          Push(n, IF n = 2 THEN "r1" ELSE "r2"), T0)

\* the first backfill has completed and nine pushes have been ingested since; no
\* worker has run yet
TakeInit ==
  /\ goals = << >>
  /\ now = T0
  /\ \E after \in
       {AfterPushes(MaxTakePushes,
          [connections |->
             << [userId |-> "u1", installationId |-> 1, syncStatus |-> "idle",
                 lastErrorCode |-> "", lastErrorMessage |-> "",
                 lastSyncedAt |-> T0, historySyncedAt |-> T0,
                 syncedFromAt |-> null, syncedToAt |-> null, streakDays |-> 0] >>,
           commitEvents |-> << >>,
           dailyStats |-> << >>,
           jobs |-> << [id |-> 1, userId |-> "u1", installationId |-> 1,
                        repoFullName |-> "", lookbackDays |-> INITIAL_BACKFILL_DAYS,
                        reason |-> "initial_backfill", deliveryId |-> "",
                        status |-> "completed", attempt |-> 0, runAfter |-> T0,
                        errorMessage |-> "", claims |-> 1, delays |-> << >>] >>])} :
       /\ connections = after.connections
       /\ commitEvents = after.commitEvents
       /\ dailyStats = after.dailyStats
       /\ jobs = after.jobs
  /\ jobSeq = MaxTakePushes + 1
  /\ deliveries = 1..MaxTakePushes
  /\ hookResult = NoResponse
  /\ github = SmallProvider
  /\ setup = [u \in Users |-> "idle"]
  /\ workers = [w \in Workers |-> IdleWorker]
  /\ tasks = {}
  /\ StreakIdle
  /\ LoginIdle
  /\ RemindIdle

\* the provider fails the requests for repository r1
TakeNext ==
  \/ StartWorker("w1")
  \/ Claim("w1")
  \/ AdvanceWorker("w1")
  \/ \E t \in tasks : GetConnection(t)
  \/ \E t \in tasks : SetSyncing(t)
  \/ \E t \in tasks : Fetch(t)
  \/ \E t \in tasks : SaveCommit(t)
  \/ \E t \in tasks : Snapshot(t)
  \/ \E t \in tasks : MarkSynced(t)
  \/ \E t \in tasks : CompleteJob(t)
  \/ \E t \in tasks : t.job.repoFullName = "r1" /\ RequestFails(t, MAX_JOB_ATTEMPTS)
  \/ \E t \in tasks : CatchSetError(t)
  \/ \E t \in tasks : FailJob(t)
  \/ Tick

\* more due jobs than one claim takes, one worker, and a job that is requeued
SpecTake == TakeInit /\ [][TakeNext]_vars

\* u2's goals, with a push-by hour of 3 in Tokyo, and those of u1: none, or a push-by
\* hour of 19 or of 22 in UTC
TickGoalTables ==
  LET base == setGoals(<< >>, "u2",
                       [commitsPerDay |-> JsNum(1), locPerDay |-> JsNum(50),
                        pushByHour |-> JsNum(3), timezone |-> "Asia/Tokyo"])
  IN  {base} \cup
      {setGoals(base, "u1",
                [commitsPerDay |-> JsNum(1), locPerDay |-> JsNum(50),
                 pushByHour |-> JsNum(p), timezone |-> "UTC"]) : p \in {19, 22}}

\* both users have connected Telegram and keep the default quiet hours (22 to 7) or
\* have both set none
TickConnectionTables ==
  LET default ==
        upsertConnection(
          upsertConnection(<< >>, "u1", NoSettingsArgs @@ [chatId |-> "chat-u1"]),
          "u2", NoSettingsArgs @@ [chatId |-> "chat-u2"])
      none == [enabled |-> TRUE, quietHoursStart |-> JsNum(0),
               quietHoursEnd |-> JsNum(0), timezone |-> "UTC"]
  IN  {default, updateSettings(updateSettings(default, "u1", none), "u2", none)}

\* 17:30Z; u1 has pushed nothing today or one commit of ten lines at 17:00Z
TickInit ==
  /\ now = RemindStart
  /\ connections = << >>
  /\ jobs = << >>
  /\ jobSeq = 0
  /\ deliveries = {}
  /\ hookResult = NoResponse
  /\ github = SmallProvider
  /\ setup = [u \in Users |-> "idle"]
  /\ workers = [w \in Workers |-> IdleWorker]
  /\ tasks = {}
  /\ StreakIdle
  /\ LoginIdle
  /\ goals \in TickGoalTables
  /\ \E pushed \in BOOLEAN :
       \E saved \in {saveCommit(<< >>, << >>, goals, EarlierCommit)} :
         /\ commitEvents = IF pushed THEN saved.commitEvents ELSE << >>
         /\ dailyStats = IF pushed THEN saved.dailyStats ELSE << >>
  /\ telegramConnections \in TickConnectionTables
  /\ \E m \in {0, 24} : reminder = [IdleReminder EXCEPT !.midnight = m]
  /\ outbox = << >>
  /\ sendFaults = 0
  /\ settingsCalls = 0

TickNext ==
  \/ StartTick
  \/ Evaluate
  \/ SendAccepted
  \/ MarkNotified
  \/ HalfHourPasses(RemindEnd)

\* the reminder ticks of an evening and the night after it, every send accepted
SpecTick == TickInit /\ [][TickNext]_vars

MaxAuthFaults == 2

AuthInit ==
  /\ goals = << >>
  /\ Connected(SmallProvider)
  /\ StreakIdle
  /\ LoginIdle
  /\ RemindIdle

\* the provider answers any request of any attempt with 401, and the requests of the
\* first attempts with 500
AuthNext ==
  \/ StartWorker("w1")
  \/ Claim("w1")
  \/ AdvanceWorker("w1")
  \/ \E t \in tasks : GetConnection(t)
  \/ \E t \in tasks : SetSyncing(t)
  \/ \E t \in tasks : Fetch(t)
  \/ \E t \in tasks : SaveCommit(t)
  \/ \E t \in tasks : Snapshot(t)
  \/ \E t \in tasks : MarkSynced(t)
  \/ \E t \in tasks : CompleteJob(t)
  \/ \E t \in tasks : RequestFails(t, MaxAuthFaults)
  \/ \E t \in tasks : RequestUnauthorized(t)
  \/ \E t \in tasks : CatchSetError(t)
  \/ \E t \in tasks : FailJob(t)
  \/ Tick

\* a backfill whose requests the provider may refuse with 401 at every attempt
SpecAuth == AuthInit /\ [][AuthNext]_vars

MaxRefuseFaults == 2

RefusedStatuses == {404, 409, 422, 500}

\* the listing of the default branch of r1 is answered with an error status
RefuseNext ==
  \/ StartWorker("w1")
  \/ Claim("w1")
  \/ AdvanceWorker("w1")
  \/ \E t \in tasks : GetConnection(t)
  \/ \E t \in tasks : SetSyncing(t)
  \/ \E t \in tasks : Fetch(t)
  \/ \E t \in tasks : SaveCommit(t)
  \/ \E t \in tasks : Snapshot(t)
  \/ \E t \in tasks : MarkSynced(t)
  \/ \E t \in tasks : CompleteJob(t)
  \/ \E t \in tasks : \E status \in RefusedStatuses :
        /\ t.pc = "save"
        /\ github[t.cursor].repo = "r1"
        /\ ListingAnswers(t, status, MaxRefuseFaults)
  \/ \E t \in tasks : CatchSetError(t)
  \/ \E t \in tasks : FailJob(t)
  \/ Tick

\* a backfill in which the provider may refuse the listing of one repository
SpecRefuse == AuthInit /\ [][RefuseNext]_vars

\* the provider fails the requests of the job of the last push, which the second claim
\* of an invocation takes
RoundsNext ==
  \/ StartWorker("w1")
  \/ Claim("w1")
  \/ AdvanceWorker("w1")
  \/ \E t \in tasks : GetConnection(t)
  \/ \E t \in tasks : SetSyncing(t)
  \/ \E t \in tasks : Fetch(t)
  \/ \E t \in tasks : SaveCommit(t)
  \/ \E t \in tasks : Snapshot(t)
  \/ \E t \in tasks : MarkSynced(t)
  \/ \E t \in tasks : CompleteJob(t)
  \/ \E t \in tasks : t.job.id = MaxTakePushes + 1 /\ RequestFails(t, MAX_JOB_ATTEMPTS)
  \/ \E t \in tasks : CatchSetError(t)
  \/ \E t \in tasks : FailJob(t)
  \/ Tick

\* a backlog of two claims whose last job is requeued round after round
SpecRounds == TakeInit /\ [][RoundsNext]_vars

LOGIN_TTL_MS == Ms(10 * 60 * 1000)

TelegramAccounts == {"tg1", "tg2"}

\* the row createLoginSession inserts
NewSession(token, purpose, requestingUserId, expiresAt) ==
  [token |-> token, purpose |-> purpose, status |-> "pending",
   requestedUserId |-> requestingUserId, telegramUserId |-> "", chatId |-> "",
   expiresAt |-> expiresAt, confirmedAt |-> null, consumedAt |-> null,
   errorCode |-> ""]

\* the start route has created a session, to sign in or to connect the account of u1
LoginInit ==
  /\ goals = << >>
  /\ EmptyStore(SmallProvider)
  /\ StreakIdle
  /\ RemindIdle
  /\ telegramLogins \in
       {<<NewSession("tok", "signin", "", T0 + LOGIN_TTL_MS)>>,
        <<NewSession("tok", "connect", "u1", T0 + LOGIN_TTL_MS)>>}

LoginNext ==
  \/ \E a \in TelegramAccounts : StartLoginSession("tok", a)
  \/ \E a \in TelegramAccounts : ConfirmLoginSession("tok", a)
  \/ \E u \in {"u1", "u2"} : CompleteSignInLink("tok", u)
  \/ FiveMinutesPass(T0 + LOGIN_TTL_MS)

\* a login session and the calls of two Telegram accounts and two users on it
SpecLogin == LoginInit /\ [][LoginNext]_vars

----------------------------------------------------------------------------
(* Properties of the streak calculator *)

\* the day number of a date key
KeyDay(dateKey) == DaysFromCivil(dateKey[1], dateKey[2], dateKey[3])

\* the days of the date keys the calculator is handed
EventKeyDays == {KeyDay(toDateKey(sEvents[i], sTz)) : i \in DOMAIN sEvents}

AnchorKeyDay == KeyDay(toDateKey(sAnchor, sTz))

\* the local calendar days that hold an event, and the anchor's, from the instants
EventDays == {LocalDay(sEvents[i], sTz) : i \in DOMAIN sEvents}

AnchorDay == LocalDay(sAnchor, sTz)

\* length of the run of consecutive days of `days` that ends on `start`
RunLength(days, start) ==
  Cardinality({d \in days : d <= start /\ \A x \in d..start : x \in days})

\* C5: streakDays is the length of the run of consecutive days with an event that
\* ends on the start day: the anchor day if it has an event, else the day before it
\* if that has one. Events on T-33..T give 34; events on T-12..T-1 give 12.
C5_StreakIsRunLength ==
  LET start == IF AnchorKeyDay \in EventKeyDays THEN AnchorKeyDay ELSE AnchorKeyDay - 1
  IN  sResult # NoResult =>
      /\ start \in EventKeyDays =>
           sResult.streakDays = RunLength(EventKeyDays, start)
      /\ EventKeyDays = (AnchorKeyDay - 33)..AnchorKeyDay => sResult.streakDays = 34
      /\ EventKeyDays = (AnchorKeyDay - 12)..(AnchorKeyDay - 1) => sResult.streakDays = 12

C5_Witness ==
  /\ EventKeyDays = (AnchorKeyDay - 12)..(AnchorKeyDay - 1)
  /\ sResult.streakDays = 12

\* C6: with no event on the anchor day and none on the day before, the streak is 0
\* whatever earlier days hold (events on T-5, T-4, T-3 only give 0).
C6_NoRevivalAcrossGap ==
  (sResult # NoResult /\ AnchorKeyDay \notin EventKeyDays /\ (AnchorKeyDay - 1) \notin EventKeyDays)
    => sResult.streakDays = 0

C6_Witness ==
  /\ EventKeyDays = (AnchorKeyDay - 5)..(AnchorKeyDay - 3)
  /\ sResult.streakDays = 0

\* C7: a further event on a day that already has one never changes streakDays.
C7_SameDayEventsCountOnce ==
  sAdded > 0 => sResult.streakDays = sBefore.streakDays

\* two events 60 s apart today, two events yesterday: a streak of 2
C7_Witness ==
  /\ sAdded = 2
  /\ Len(sEvents) = 4
  /\ EventDays = {AnchorDay - 1, AnchorDay}
  /\ \E i, j \in DOMAIN sEvents : sEvents[j] = sEvents[i] + Ms(60000)
  /\ sResult.streakDays = 2

\* C8: every event and the anchor are assigned to the calendar day of their instant
\* in the supplied zone before days are counted; the events of 07:30Z and 22:30Z on
\* 2026-02-15 and 08:30Z on 2026-02-14, in America/Los_Angeles with the anchor at
\* 12:00Z on 2026-02-15, fall on 2 local days and give a streak of 2.
C8_LocalCalendarDays ==
  LET start == IF AnchorDay \in EventDays THEN AnchorDay ELSE AnchorDay - 1
  IN  sResult # NoResult =>
      /\ sResult.anchorDateKey = CivilFromDays(AnchorDay)
      /\ sResult.streakDays = IF start \in EventDays THEN RunLength(EventDays, start) ELSE 0
      /\ sResult.streakDays > 0 =>
           sResult.streakStartDateKey = CivilFromDays(start - sResult.streakDays + 1)
      /\ (sAdded = 0 /\ sEvents = BoundaryCase /\ sTz = "America/Los_Angeles")
           => Cardinality(EventDays) = 2 /\ sResult.streakDays = 2

C8_Witness ==
  /\ sEvents = BoundaryCase
  /\ sTz = "America/Los_Angeles"
  /\ Cardinality(EventDays) = 2
  /\ sResult.streakDays = 2

\* C9: touchesLookbackBoundary is true exactly when the streak start is a day (not
\* null) on or before the lookback start; a 140-day streak ending at the anchor
\* touches a lookback window that starts 90 days before the anchor.
C9_TouchesIffStartOnOrBefore ==
  sLookbackDays # null =>
    LET lookbackStart == toDateKey(sAnchor - sLookbackDays * DAY_MS, sTz)
    IN  /\ sTouches <=> /\ sResult.streakStartDateKey # NullKey
                        /\ KeyDay(sResult.streakStartDateKey) <= KeyDay(lookbackStart)
        /\ (EventKeyDays = (AnchorKeyDay - 139)..AnchorKeyDay /\ sLookbackDays = 90)
             => sTouches

C9_Witness ==
  /\ EventKeyDays = (AnchorKeyDay - 139)..AnchorKeyDay
  /\ sResult.streakDays = 140
  /\ sLookbackDays = 90
  /\ sTouches

----------------------------------------------------------------------------
(* Properties of the commit store and the job queue *)

\* the step is a saveCommit call of task t, which becomes t2
SaveCommitCall(t, t2) ==
  /\ t.pc = "save"
  /\ t2 \in tasks'
  /\ t2.w = t.w /\ t2.job.id = t.job.id
  /\ t2.saved = t.saved + 1

\* the commit task t is about to save is stored for the task's user
AlreadyStored(t) ==
  \E i \in DOMAIN commitEvents :
    /\ commitEvents[i].userId = t.userId
    /\ commitEvents[i].sha = github[t.cursor].sha

\* C1: a saveCommit call for a (userId, sha) that is already stored returns
\* inserted: false and changes no commit event and no daily stat; and no state,
\* whatever the interleaving of the jobs of a batch, holds two commit events of the
\* same (userId, sha).
C1_SaveCommitOncePerSha ==
  /\ [][\A t \in tasks : \A t2 \in tasks' :
          SaveCommitCall(t, t2) /\ AlreadyStored(t)
            => /\ ~t2.inserted
               /\ commitEvents' = commitEvents
               /\ dailyStats' = dailyStats]_vars
  /\ [](\A i, k \in DOMAIN commitEvents :
          /\ commitEvents[i].userId = commitEvents[k].userId
          /\ commitEvents[i].sha = commitEvents[k].sha
          => i = k)

\* a task has had inserted: false from saveCommit while the other job of the batch,
\* which had saved commit 2 before, is still at work
C1_Witness ==
  \E t \in tasks : \E o \in tasks :
    /\ t.saved > 0 /\ ~t.inserted /\ t.pc = "save"
    /\ o.job.id # t.job.id /\ o.saved > 0 /\ o.pc \notin {"done", "crashed"}
    /\ Len(commitEvents) = 2

\* worker w has claimed job jobId and has not finished with it
Holds(w, jobId) ==
  \/ \E t \in tasks : t.w = w /\ t.job.id = jobId /\ t.pc \notin {"done", "crashed"}
  \/ /\ workers[w].pc = "batch"
     /\ \E k \in workers[w].next..Len(workers[w].claimed) :
          workers[w].claimed[k].id = jobId

\* C2: claimSyncJobs returns a job once more than failSyncJob has put it back at most
\* once, that is never twice without a failSyncJob in between; and no job is held by
\* two workers at the same time.
C2_ClaimedByOneWorker ==
  /\ \A i \in DOMAIN jobs : jobs[i].claims <= jobs[i].attempt + 1
  /\ \A jobId \in 1..jobSeq : Cardinality({w \in Workers : Holds(w, jobId)}) <= 1

\* w2 works on the job that w1 claimed first and put back after a failure
C2_Witness ==
  \E i \in DOMAIN jobs :
    /\ jobs[i].claims = 2 /\ jobs[i].status = "processing"
    /\ \E t \in tasks : t.w = "w1" /\ t.job.id = jobs[i].id /\ t.job.attempt = 0
                        /\ t.pc = "done"
    /\ \E t \in tasks : t.w = "w2" /\ t.job.id = jobs[i].id /\ t.job.attempt = 1
                        /\ t.pc = "save"

\* C3: over the failures of a job the retry delays runAfter - now grow strictly and
\* stay at or below 300000 ms; the job is failed exactly when its attempt is 6, and
\* each of the failures before that one has put it back to pending with a delay.
C3_RetrySchedule ==
  \A i \in DOMAIN jobs :
    LET job == jobs[i]
    IN  /\ job.attempt <= MAX_JOB_ATTEMPTS
        /\ (job.status = "failed") <=> (job.attempt = MAX_JOB_ATTEMPTS)
        /\ Len(job.delays) = Min(job.attempt, MAX_JOB_ATTEMPTS - 1)
        /\ \A k \in DOMAIN job.delays :
             /\ job.delays[k] <= Ms(300000)
             /\ k > 1 => job.delays[k] > job.delays[k - 1]

\* a job has failed six times: five requeues, then failed
C3_Witness ==
  \E i \in DOMAIN jobs :
    /\ jobs[i].status = "failed"
    /\ jobs[i].attempt = 6
    /\ Len(jobs[i].delays) = 5

Unresolved(job) == job.status \in {"pending", "processing"}

\* C4: at most one pending or processing initial_backfill job exists for an
\* installation and a lookbackDays.
C4_OneUnresolvedBackfillPerKey ==
  \A i, k \in DOMAIN jobs :
    /\ Unresolved(jobs[i]) /\ Unresolved(jobs[k])
    /\ jobs[i].reason = "initial_backfill" /\ jobs[k].reason = "initial_backfill"
    /\ jobs[i].installationId = jobs[k].installationId
    /\ jobs[i].lookbackDays = jobs[k].lookbackDays
    => i = k

\* the step is the markSynced call of task t
MarkSyncedCall(t) ==
  /\ t.pc = "markSynced"
  /\ \E t2 \in tasks' : t2.w = t.w /\ t2.job.id = t.job.id /\ t2.pc = "complete"

\* C10: when an initial_backfill job of effective lookback L has fetched and calls
\* markSynced: if its streak touches the lookback boundary and L < 1825, it has
\* enqueued a backfill of min(1825, L + 90) days, and the call leaves syncStatus at
\* syncing and historySyncedAt as it was; otherwise it has enqueued nothing, and the
\* call sets historySyncedAt to the job's time and syncStatus to idle.
C10_BackfillExtension ==
  [][\A t \in tasks :
       MarkSyncedCall(t) /\ t.job.reason = "initial_backfill"
         => LET c == ConnectionIndexByUser(connections, t.userId)
            IN  IF t.touches /\ t.lookback < 1825
                  THEN /\ t.enqueued = Min(1825, t.lookback + 90)
                       /\ \E i \in DOMAIN jobs :
                            /\ jobs[i].reason = "initial_backfill"
                            /\ jobs[i].lookbackDays = Min(1825, t.lookback + 90)
                       /\ connections'[c].syncStatus = "syncing"
                       /\ connections'[c].historySyncedAt = connections[c].historySyncedAt
                  ELSE /\ t.enqueued = null
                       /\ connections'[c].syncStatus = "idle"
                       /\ connections'[c].historySyncedAt = t.now]_vars

\* over the provider of 100 days: the job of 90 days, whose streak touched the
\* boundary, has enqueued the job of 180 days, whose streak stops short of the
\* boundary and which has enqueued nothing and made the connection idle
C10_Witness ==
  /\ Len(github) = 101
  /\ \E i \in DOMAIN jobs : jobs[i].lookbackDays = 90 /\ jobs[i].status = "completed"
  /\ \E i \in DOMAIN jobs : jobs[i].lookbackDays = 180 /\ jobs[i].status = "completed"
  /\ \E t \in tasks : /\ t.lookback = 180 /\ ~t.touches /\ t.enqueued = null
                      /\ t.pc = "done"
  /\ connections[1].syncStatus = "idle"
  /\ connections[1].historySyncedAt = T0

\* the step is task t's setSyncStatus call of the catch block
CatchSetErrorCall(t) ==
  /\ t.pc = "catch"
  /\ \E t2 \in tasks' : t2.w = t.w /\ t2.job.id = t.job.id /\ t2.pc = "fail"

\* the step is task t's failSyncJob call of the catch block
FailSyncJobCall(t) ==
  /\ t.pc = "fail"
  /\ \E t2 \in tasks' : t2.w = t.w /\ t2.job.id = t.job.id /\ t2.pc \in {"done", "crashed"}

C15_ErrorNeverEndsWorker ==
  \A w \in Workers : workers[w].pc # "crashed"

\* the job was enqueued for a webhook delivery
DeliveryJob(job) == job.reason \in {"push", "installation_repositories", "reconcile"}

\* the jobs of a table that carry delivery id d
JobsOfDelivery(table, d) ==
  {i \in DOMAIN table : DeliveryJob(table[i]) /\ table[i].deliveryId = d}

\* C16: a job that carries a delivery id is created only by the call that ingests
\* that id for the first time, an ingested id stays ingested, and the table never
\* holds two jobs of one delivery id: so at most one job is ever created per delivery
\* id. A call that answers duplicate: true has created no job and changed no
\* connection.
C16_OneJobPerDelivery ==
  /\ [](\A d \in deliveries : Cardinality(JobsOfDelivery(jobs, d)) <= 1)
  /\ [](\A i \in DOMAIN jobs : DeliveryJob(jobs[i]) => jobs[i].deliveryId \in deliveries)
  /\ [][/\ deliveries \subseteq deliveries'
        /\ \A i \in DOMAIN jobs' :
             DeliveryJob(jobs'[i]) /\ jobs'[i].id > jobSeq
               => /\ jobs'[i].deliveryId \notin deliveries
                  /\ jobs'[i].deliveryId \in deliveries'
                  /\ ~hookResult'.duplicate
        /\ hookResult' # hookResult /\ hookResult'.duplicate
             => /\ deliveries' = deliveries
                /\ jobs' = jobs
                /\ jobSeq' = jobSeq
                /\ connections' = connections]_vars

\* delivery 1 has made the push job, delivery 2 the reconcile job, and the last call,
\* a redelivery, was answered duplicate: true: the connection has its two jobs
C16_Witness ==
  /\ hookResult.duplicate
  /\ deliveries = {1, 2}
  /\ Len(connections) = 1
  /\ Cardinality({i \in DOMAIN jobs : DeliveryJob(jobs[i])}) = 2
  /\ \E i \in DOMAIN jobs : jobs[i].reason = "push" /\ jobs[i].deliveryId = 1

\* C17: in every state every dailyStats row with commitCount > 0 has for
\* avgCommitSize the integer nearest to locChanged / commitCount, the upper one at a
\* half: avgCommitSize - 1/2 <= locChanged / commitCount < avgCommitSize + 1/2.
C17_AvgIsRoundedMean ==
  \A i \in DOMAIN dailyStats :
    LET row == dailyStats[i]
    IN  row.commitCount > 0
          => /\ (2 * row.avgCommitSize - 1) * row.commitCount <= 2 * row.locChanged
             /\ 2 * row.locChanged < (2 * row.avgCommitSize + 1) * row.commitCount

\* a day of two commits, of 2 and 3 lines: the mean 2.5 is stored as 3
C17_Witness ==
  \E i \in DOMAIN dailyStats :
    /\ dailyStats[i].commitCount = 2
    /\ dailyStats[i].locChanged = 5
    /\ dailyStats[i].avgCommitSize = 3

\* the step ends with nothing of user u left: no commit event, no daily stat, no
\* connection, and no pending job of installation installationId
ClearedAfter(u, installationId) ==
  /\ \A i \in DOMAIN commitEvents' : commitEvents'[i].userId # u
  /\ \A i \in DOMAIN dailyStats' : dailyStats'[i].userId # u
  /\ \A i \in DOMAIN connections' : connections'[i].userId # u
  /\ \A i \in DOMAIN jobs' :
       jobs'[i].installationId = installationId => jobs'[i].status # "pending"

\* the step is the first delivery of the installation-deleted webhook, for the
\* installation of connection c
UninstallCall(c) ==
  /\ IngestWebhook(Uninstall(1), MaxClearJobs + 1)
  /\ 1 \notin deliveries
  /\ connections[c].installationId = 1

\* C18: the step that handles a disconnect of a connected user, or the first delivery
\* of an installation-deleted webhook for a connected installation, ends in a state
\* where the user has no commit event, no daily stat and no connection, and the
\* installation has no pending job.
C18_ClearedAfterDisconnect ==
  [][\A c \in DOMAIN connections :
       Disconnect(connections[c].userId) \/ UninstallCall(c)
         => ClearedAfter(connections[c].userId, connections[c].installationId)]_vars

\* the user has been synced (two commit events, stats, a completed job) and is gone
\* after an installation-deleted webhook: nothing of the user is left
C18_Witness ==
  /\ hookResult = [accepted |-> TRUE, duplicate |-> FALSE]
  /\ deliveries = {1}
  /\ connections = << >>
  /\ commitEvents = << >>
  /\ dailyStats = << >>
  /\ jobs = << >>
  /\ jobSeq = 1
  /\ \E t \in tasks : t.pc = "done" /\ t.saved = 3 /\ t.message = ""

\* the status changes a job may make
JobTransitions ==
  {<<"pending", "processing">>, <<"processing", "completed">>,
   <<"processing", "pending">>, <<"processing", "failed">>}

\* C19: a step that changes the status of a job takes it from pending to processing,
\* or from processing to completed, pending or failed; a completed or failed job
\* keeps its status and is not claimed again.
C19_JobStatusMachine ==
  [][\A i \in DOMAIN jobs : \A k \in DOMAIN jobs' :
       jobs'[k].id = jobs[i].id
         => /\ jobs'[k].status # jobs[i].status
                 => <<jobs[i].status, jobs'[k].status>> \in JobTransitions
            /\ jobs[i].status \in {"completed", "failed"}
                 => /\ jobs'[k].status = jobs[i].status
                    /\ jobs'[k].claims = jobs[i].claims]_vars

\* the job has failed for good after six claims, and the worker's next round has
\* found nothing to claim
C19_Witness ==
  /\ \E i \in DOMAIN jobs : jobs[i].status = "failed" /\ jobs[i].claims = 6
  /\ tasks = {}
  /\ workers["w1"].pc = "idle"

----------------------------------------------------------------------------
(* Properties of the goals and the notification settings *)

\* x is an integer between lo and hi
IsIntIn(x, lo, hi) ==
  /\ x.kind = "finite"
  /\ x.halves % 2 = 0
  /\ 2 * lo <= x.halves
  /\ x.halves <= 2 * hi

\* C20: after any sequence of setGoals and updateSettings calls the stored pushByHour,
\* quietHoursStart and quietHoursEnd are integers in [0, 23], commitsPerDay is in
\* [0, 100] and locPerDay is in [0, 5000].
C20_StoredSettingsInRange ==
  /\ \A i \in DOMAIN goals :
       /\ IsIntIn(goals[i].pushByHour, 0, 23)
       /\ IsIntIn(goals[i].commitsPerDay, 0, 100)
       /\ IsIntIn(goals[i].locPerDay, 0, 5000)
  /\ \A i \in DOMAIN telegramConnections :
       /\ IsIntIn(telegramConnections[i].quietHoursStart, 0, 23)
       /\ IsIntIn(telegramConnections[i].quietHoursEnd, 0, 23)

----------------------------------------------------------------------------
(* Properties of the reminder engine *)

\* the hour of the day, 0 to 23, of an instant on the clocks of a zone
LocalHour(timestamp, timeZone) ==
  ((timestamp + TzOffset(timeZone, timestamp)) % DAY_MS) \div HOUR_MS

\* hour h lies in the quiet window of a connection row with whole hours start and end
InQuietWindow(h, row) ==
  /\ row.quietHoursStart.kind = "finite"
  /\ row.quietHoursEnd.kind = "finite"
  /\ LET start == row.quietHoursStart.halves \div 2
         end == row.quietHoursEnd.halves \div 2
     IN  \/ start < end /\ start <= h /\ h < end
         \/ start > end /\ (h >= start \/ h < end)

\* the evaluation of the current connection decides to send
DecidesToSend == reminder.pc = "evaluate" /\ reminder'.pc = "send"

\* the row of the connection under evaluation
EvaluatedRow ==
  telegramConnections[TelegramIndexByUser(telegramConnections,
                                          reminder.list[reminder.pos])]

\* C12: no reminder is sent to a user whose current local hour lies in the quiet
\* window: start <= h < end when start < end, h >= start or h < end when start > end;
\* a window from 22 to 7 suppresses at hour 23 and at hour 3 and not at hour 10.
C12_QuietHoursSuppress ==
  /\ [](/\ isQuietHour(23, JsNum(22), JsNum(7))
        /\ isQuietHour(3, JsNum(22), JsNum(7))
        /\ ~isQuietHour(10, JsNum(22), JsNum(7)))
  /\ [][DecidesToSend =>
          ~InQuietWindow(LocalHour(now, reminder'.context.timeZone), EvaluatedRow)]_vars

\* u1, with nothing pushed today and the window from 22 to 7, has been evaluated at
\* hour 23 and got no message, after a message at an hour outside the window
C12_Witness ==
  /\ reminder.evaluated >= 1
  /\ reminder.context.found
  /\ reminder.context.chatId = "chat-u1"
  /\ reminder.context.quietHoursStart = JsNum(22)
  /\ reminder.context.quietHoursEnd = JsNum(7)
  /\ reminder.context.commitCount = 0
  /\ reminder.context.lastCommitAt = null
  /\ reminder.hour = 23
  /\ reminder.kind = "none"
  /\ \E i \in DOMAIN outbox : outbox[i].userId = "u1" /\ outbox[i].hour = 20

\* two instants fall on the same calendar day and in the same hour on the clocks of
\* a zone
SameLocalDayAndHour(earlier, later, timeZone) ==
  /\ LocalDay(earlier, timeZone) = LocalDay(later, timeZone)
  /\ LocalHour(earlier, timeZone) = LocalHour(later, timeZone)

C13_FailureSkipsNobody ==
  reminder.pc \in {"done", "failed"} => reminder.evaluated = Len(reminder.list)

----------------------------------------------------------------------------
(* Further properties of the streak calculator *)

\* C21: whenever the computed streak is 0, empty input included, the returned
\* streak-start date key and first-gap date key are both null; when it is positive the
\* first-gap date key is the day directly before the oldest day of the streak.
C21_GapKeyOfStreak ==
  sResult # NoResult =>
    /\ sResult.streakDays = 0 =>
         /\ sResult.streakStartDateKey = NullKey
         /\ sResult.firstGapDateKey = NullKey
    /\ sResult.streakDays > 0 =>
         KeyDay(sResult.firstGapDateKey) = KeyDay(sResult.streakStartDateKey) - 1

----------------------------------------------------------------------------
(* Further properties of the commit store and the job queue *)

\* the job with this id is in the table, pending or processing
JobOpen(id) ==
  \E i \in DOMAIN jobs : jobs[i].id = id /\ jobs[i].status \in {"pending", "processing"}

\* C22: provided the worker keeps being triggered and time advances, every enqueued job
\* eventually reaches completed or failed: no job stays pending forever with runAfter in
\* the past and no job stays in processing forever, including when the worker
\* invocation that claimed it ends with an error.
C22_EveryJobEnds == \A id \in 1..2 : JobOpen(id) ~> ~JobOpen(id)

\* the lookback a job is processed with: lookbackDays, 90 at least, 1825 at most
EffectiveLookback(job) ==
  IF job.lookbackDays = null \/ job.lookbackDays < 90 THEN 90
  ELSE IF job.lookbackDays > 1825 THEN 1825
  ELSE job.lookbackDays

\* the step is task t's enqueueSyncJob call of the follow-up backfill
EnqueueCall(t) ==
  /\ t.pc = "enqueue"
  /\ \E t2 \in tasks' : t2.w = t.w /\ t2.job.id = t.job.id /\ t2.pc = "markSynced"

\* C23: along a chain of follow-up initial-backfill jobs the effective lookback strictly
\* increases from one job to the next and never exceeds 1825 days, so a chain that
\* starts at 90 days contains at most 21 jobs and expansion stops.
C23_ChainGrowsAndStops ==
  /\ [](/\ Len(jobs) <= 21
        /\ \A i \in DOMAIN jobs : EffectiveLookback(jobs[i]) <= 1825
        /\ \A i, j \in DOMAIN jobs :
             i < j => EffectiveLookback(jobs[i]) < EffectiveLookback(jobs[j]))
  /\ [][\A t \in tasks :
          EnqueueCall(t) =>
            /\ Len(jobs') = Len(jobs) + 1
            /\ EffectiveLookback(jobs'[Len(jobs')]) > EffectiveLookback(t.job)
            /\ EffectiveLookback(jobs'[Len(jobs')]) <= 1825]_vars

\* over the provider of 1900 days the job of 90 days has completed and has enqueued
\* the next job of the chain, of 180 days
C23_Witness ==
  /\ Len(github) = 1901
  /\ Len(jobs) = 2
  /\ jobs[1].lookbackDays = 90
  /\ jobs[1].status = "completed"
  /\ jobs[2].reason = "initial_backfill"
  /\ jobs[2].lookbackDays = 180
  /\ jobs[2].status = "pending"
  /\ connections[1].syncStatus = "syncing"

\* the connection row of a user, as a set: empty when there is none
ConnectionsOf(userId) ==
  {connections[i] : i \in {k \in DOMAIN connections : connections[k].userId = userId}}

\* C24: while a follow-up initial-backfill job of an expansion chain is pending or
\* processing, the connection's syncStatus is never idle, whatever other jobs of the
\* same installation complete in the meantime.
C24_SyncingWhileChainOpen ==
  \A i \in DOMAIN jobs :
    /\ jobs[i].reason = "initial_backfill"
    /\ jobs[i].lookbackDays # null
    /\ jobs[i].lookbackDays > 90
    /\ jobs[i].status \in {"pending", "processing"}
    => \A c \in ConnectionsOf(jobs[i].userId) : c.syncStatus # "idle"

\* the step is an awaited call of task t returning
TaskMoves(t) ==
  /\ t \notin tasks'
  /\ \E t2 \in tasks' : t2.w = t.w /\ t2.job.id = t.job.id /\ t2 \notin tasks

\* C25: when the user disconnects while one of their jobs is processing, the job writes
\* no CommitEvent, no DailyStat and no connection field after the disconnect, and it
\* ends as completed: once clearGithubData has removed the job's row, no step of the
\* job changes a table, and the job never ends in its catch block.
C25_NoEffectAfterDisconnect ==
  [][\A t \in tasks :
       TaskMoves(t) /\ JobIndex(jobs, t.job.id) = 0 =>
         /\ commitEvents' = commitEvents
         /\ dailyStats' = dailyStats
         /\ connections' = connections
         /\ \A t2 \in tasks' : t2.job.id = t.job.id => t2.pc \notin {"catch", "crashed"}]_vars

\* C26: a job whose reason is not initial_backfill fetches from lastSyncedAt - 6 hours
\* when the connection it read has a prior sync, and from the start of the
\* initial-backfill window (now - 90 days) when it has none.
C26_WindowOfOtherReasons ==
  \A t \in tasks :
    /\ t.job.reason # "initial_backfill"
    /\ t.pc \in {"save", "snapshot", "enqueue", "markSynced", "complete"}
    => t.since = IF t.lastSyncedAt # null
                   THEN t.lastSyncedAt - SYNC_SAFETY_WINDOW_MS
                   ELSE t.now - INITIAL_BACKFILL_DAYS * DAY_MS

\* the zone saveCommit keys the user's DailyStats with; github.ts:792-797
StatsTimeZone(userId) ==
  LET g == GoalsIndexByUser(goals, userId)
  IN  IF g # 0 THEN goals[g].timezone ELSE "UTC"

\* C27: the streak the worker takes from the snapshot and stores on the connection,
\* and the boundary-touch decision that drives the expansion, are those computed with
\* the event timestamps and the anchor converted to date keys in the user's
\* configured time zone, the zone that keys the user's DailyStats.
C27_SnapshotInUserZone ==
  [][\A t \in tasks :
       t.pc = "snapshot" /\ TaskMoves(t) =>
         \E t2 \in tasks' \ tasks :
           LET timeZone == StatsTimeZone(t.userId)
               computation == computeCurrentStreakFromCommitEvents(
                                ScannedCommittedAt(commitEvents, t.userId),
                                timeZone, t.now)
           IN  /\ t2.streakDays = computation.streakDays
               /\ t2.touches =
                    (t.lookback # null /\
                     touchesLookbackBoundary(
                       computation.streakStartDateKey,
                       toDateKey(t.now - t.lookback * DAY_MS, timeZone)))]_vars

\* the stored CommitEvents of a user that saveCommit assigned to a day
EventsOfDay(userId, date) ==
  {i \in DOMAIN commitEvents :
     /\ commitEvents[i].userId = userId
     /\ toDateKey(commitEvents[i].committedAt, StatsTimeZone(userId)) = date}

RECURSIVE SizeSum(_)
SizeSum(S) ==
  IF S = {} THEN 0
  ELSE LET i == CHOOSE x \in S : TRUE
       IN  commitEvents[i].size + SizeSum(S \ {i})

\* C28: each DailyStat equals the aggregate recomputed from the stored CommitEvents
\* assigned to its day: commitCount is their number, locChanged the sum of their
\* sizes, and reposTouched the duplicate-free set of their repositories.
C28_StatsAreTheAggregate ==
  \A k \in DOMAIN dailyStats :
    LET stat == dailyStats[k]
        mine == EventsOfDay(stat.userId, stat.date)
        repos == {commitEvents[i].repo : i \in mine}
    IN  /\ stat.commitCount = Cardinality(mine)
        /\ stat.locChanged = SizeSum(mine)
        /\ {stat.reposTouched[n] : n \in DOMAIN stat.reposTouched} = repos
        /\ Len(stat.reposTouched) = Cardinality(repos)

\* a day with three commits, two of them of one repository
C28_Witness ==
  \E k \in DOMAIN dailyStats :
    /\ dailyStats[k].commitCount = 3
    /\ dailyStats[k].locChanged = 9
    /\ dailyStats[k].reposTouched = <<"r1", "r2">>
    /\ Cardinality({i \in EventsOfDay("u1", dailyStats[k].date) :
                      commitEvents[i].repo = "r1"}) = 2

\* what processJob's loops save of the provider's commits k.. listed since a
\* timestamp, on top of a store, when no request fails
RECURSIVE SaveListed(_, _, _)
SaveListed(k, since, store) ==
  IF k > Len(github) THEN store
  ELSE IF Listed(github[k], since, "")
    THEN SaveListed(k + 1, since,
                    saveCommit(store.commitEvents, store.dailyStats, goals,
                               [userId |-> "u1", repo |-> github[k].repo,
                                sha |-> github[k].sha,
                                additions |-> github[k].additions,
                                deletions |-> github[k].deletions,
                                committedAt |-> github[k].committedAt]))
    ELSE SaveListed(k + 1, since, store)

\* the tables after a run of the first backfill at anchor that meets no failure
CleanRun(anchor) ==
  SaveListed(1, anchor - INITIAL_BACKFILL_DAYS * DAY_MS,
             [commitEvents |-> << >>, dailyStats |-> << >>])

ShaSet(events) == {events[i].sha : i \in DOMAIN events}

\* the first backfill has completed after at least one failure
RetriedToSuccess ==
  /\ Len(jobs) = 1
  /\ jobs[1].status = "completed"
  /\ jobs[1].attempt >= 1

\* C29 as stated: when a job has failed part-way after saving some commits and has
\* been retried to success, the CommitEvents and the DailyStats are those of a first
\* run that succeeded.
C29_RetryEqualsFirstRun ==
  RetriedToSuccess =>
    /\ commitEvents = CleanRun(T0).commitEvents
    /\ dailyStats = CleanRun(T0).dailyStats

\* C29 amended: after the retry the CommitEvents hold no commit twice, hold every
\* commit a clean run at the time of the retry saves and none that a clean first run
\* does not save; when no commit is missing the CommitEvents and the DailyStats are
\* those of the clean first run; and a failure (the throw, setSyncStatus and
\* failSyncJob of the catch block) changes no CommitEvent and no DailyStat.
C29_RetryKeepsWhatWasSaved ==
  /\ [](RetriedToSuccess =>
          /\ Cardinality(ShaSet(commitEvents)) = Len(commitEvents)
          /\ ShaSet(CleanRun(connections[1].lastSyncedAt).commitEvents)
               \subseteq ShaSet(commitEvents)
          /\ ShaSet(commitEvents) \subseteq ShaSet(CleanRun(T0).commitEvents)
          /\ ShaSet(commitEvents) = ShaSet(CleanRun(T0).commitEvents) =>
               /\ commitEvents = CleanRun(T0).commitEvents
               /\ dailyStats = CleanRun(T0).dailyStats)
  /\ [][\A t \in tasks :
          /\ TaskMoves(t)
          /\ t.pc \in {"catch", "fail"} \/ \E t2 \in tasks' \ tasks : t2.pc = "catch"
          => commitEvents' = commitEvents /\ dailyStats' = dailyStats]_vars

\* the failed run saved the commit made 90 days ago, the retry ran a minute later and
\* saved the rest
C29_Witness ==
  /\ RetriedToSuccess
  /\ connections[1].lastSyncedAt > T0
  /\ Len(commitEvents) = 3
  /\ commitEvents = CleanRun(T0).commitEvents
  /\ dailyStats = CleanRun(T0).dailyStats
  /\ ShaSet(CleanRun(connections[1].lastSyncedAt).commitEvents) = {2, 3}

\* the step is the claimSyncJobs call of worker w returning
ClaimCall(w) == workers[w].pc = "claim" /\ workers'[w] # workers[w]

\* C30: a claimSyncJobs(limit, now) call returns at most limit jobs, each of which was
\* pending with runAfter <= now at the moment of the claim, and sets exactly the
\* returned jobs to processing: no other row changes its status, and a requeued job
\* whose runAfter lies ahead is not returned.
C30_ClaimTakesDuePending ==
  [][\A w \in Workers :
       ClaimCall(w) =>
         LET claimed == workers'[w].claimed
             ids == {claimed[r].id : r \in DOMAIN claimed}
         IN  /\ Len(claimed) <= WORKER_BATCH_SIZE
             /\ Cardinality(ids) = Len(claimed)
             /\ Len(jobs') = Len(jobs)
             /\ \A id \in ids : JobIndex(jobs, id) # 0
             /\ \A i \in DOMAIN jobs :
                  /\ jobs'[i].id = jobs[i].id
                  /\ jobs[i].id \in ids =>
                       /\ jobs[i].status = "pending"
                       /\ jobs[i].runAfter <= now
                       /\ jobs'[i].status = "processing"
                  /\ jobs[i].id \notin ids => jobs'[i].status = jobs[i].status]_vars

\* a claim has returned eight jobs and left the ninth due job pending
C30_Witness ==
  /\ workers["w1"].pc = "batch"
  /\ Len(workers["w1"].claimed) = WORKER_BATCH_SIZE
  /\ \A r \in DOMAIN workers["w1"].claimed :
       jobs[JobIndex(jobs, workers["w1"].claimed[r].id)].status = "processing"
  /\ \E i \in DOMAIN jobs :
       /\ jobs[i].status = "pending"
       /\ jobs[i].runAfter <= now
       /\ jobs[i].claims = 0

----------------------------------------------------------------------------
(* Further properties of the reminder engine *)

\* the number a goal of the context stands for: its default when there is no Goals
\* record, 0 when the stored value is not a finite number
GoalNumber(value, default) ==
  IF value.kind = "null" THEN default
  ELSE IF value.kind = "finite" THEN value.halves \div 2
  ELSE 0

\* the goal nudge holds for a context at local hour h
GoalNudgeHolds(context, h) ==
  LET commitGoal == GoalNumber(context.commitsPerDay, 1)
      locGoal == GoalNumber(context.locPerDay, 50)
  IN  /\ h = GoalNumber(context.pushByHour, 18)
      /\ \/ commitGoal > 0 /\ context.commitCount < commitGoal
         \/ locGoal > 0 /\ context.locChanged < locGoal

ZeroPushFollowUpHolds(context, h) == context.commitCount = 0 /\ h \in {19, 20}

CriticalZeroPushHolds(context, h) == context.commitCount = 0 /\ h \in {22, 23}

\* C31: a reminder is sent to a user in a tick only if the local hour equals the
\* push-by hour and a nonzero goal is unmet, or today's commit count is 0 and the
\* local hour is 19 or 20, or today's commit count is 0 and the local hour is 22 or 23.
C31_SentOnlyOnTrigger ==
  [][DecidesToSend =>
       LET context == reminder'.context
           h == LocalHour(now, context.timeZone)
       IN  \/ GoalNudgeHolds(context, h)
           \/ ZeroPushFollowUpHolds(context, h)
           \/ CriticalZeroPushHolds(context, h)]_vars

\* u1 got the goal nudge at 18:30Z for the commit of ten lines, and u2 the nudge of the
\* push-by hour 3 in Tokyo
C31_Witness ==
  /\ \E i \in DOMAIN outbox :
       /\ outbox[i].userId = "u1" /\ outbox[i].kind = "nudge" /\ outbox[i].hour = 18
       /\ outbox[i].at = T0 + 6 * HOUR_MS + Ms(30 * 60 * 1000)
  /\ \E i \in DOMAIN outbox :
       /\ outbox[i].userId = "u2" /\ outbox[i].kind = "nudge" /\ outbox[i].hour = 3

\* the message of the first trigger that holds, in the order goal nudge, zero-push
\* follow-up, critical zero-push
FirstMatchingKind(context, h) ==
  IF GoalNudgeHolds(context, h) THEN "nudge"
  ELSE IF ZeroPushFollowUpHolds(context, h) THEN "alert"
  ELSE "critical"

\* C32: at most one message is sent per user per tick, and when more than one trigger
\* holds for a user in a tick the message is that of the first matching condition in
\* the order goal nudge, zero-push follow-up, critical zero-push.
C32_FirstMatchingMessage ==
  /\ [](\A i, j \in DOMAIN outbox :
          i < j /\ outbox[i].userId = outbox[j].userId => outbox[i].at # outbox[j].at)
  /\ [][DecidesToSend =>
          reminder'.kind =
            FirstMatchingKind(reminder'.context,
                              LocalHour(now, reminder'.context.timeZone))]_vars

\* C33: no reminder is sent to a user whose most recent stored commit was authored
\* less than 90 minutes before the evaluation, whichever trigger holds.
C33_GraceAfterCommit ==
  [][DecidesToSend =>
       \A i \in DOMAIN commitEvents :
         commitEvents[i].userId = reminder.list[reminder.pos] =>
           now - commitEvents[i].committedAt >= Ms(90 * 60 * 1000)]_vars

\* u1, who pushed ten lines at 17:00Z and has the default goals, was evaluated at
\* 18:00Z, the push-by hour and outside the quiet hours, and got no message
C33_Witness ==
  /\ reminder.evaluated >= 1
  /\ reminder.context.found
  /\ reminder.context.chatId = "chat-u1"
  /\ ~reminder.context.hasGoals
  /\ reminder.context.locChanged = 10
  /\ reminder.context.lastCommitAt = T0 + 5 * HOUR_MS
  /\ reminder.context.lastNotifiedAt = null
  /\ reminder.at = T0 + 6 * HOUR_MS
  /\ reminder.hour = 18
  /\ ~isQuietHour(18, reminder.context.quietHoursStart, reminder.context.quietHoursEnd)
  /\ reminder.kind = "none"

\* C34: a reminder tick changes nothing in the store except lastNotifiedAt of the
\* users it sent a message to, which it sets to the time of that user's evaluation;
\* a user who was suppressed keeps lastNotifiedAt unchanged.
C34_TickWritesOnlyTheStamp ==
  [][reminder' # reminder =>
       /\ UNCHANGED <<goals, connections, commitEvents, dailyStats, jobs, deliveries>>
       /\ Len(telegramConnections') = Len(telegramConnections)
       /\ \A i \in DOMAIN telegramConnections :
            IF /\ reminder.pc = "mark"
               /\ telegramConnections[i].userId = reminder.list[reminder.pos]
              THEN /\ telegramConnections'[i] =
                        [telegramConnections[i] EXCEPT !.lastNotifiedAt = reminder.at]
                   /\ outbox # << >>
                   /\ outbox[Len(outbox)].userId = telegramConnections[i].userId
                   /\ outbox[Len(outbox)].at = reminder.at
              ELSE telegramConnections'[i] = telegramConnections[i]]_vars

\* a tick has ended that sent u1 the alert of 19:00Z and suppressed u2: u1's stamp is
\* the time of the evaluation and u2 has none
C34_Witness ==
  /\ reminder.pc = "done"
  /\ reminder.evaluated = 2
  /\ reminder.notified = 1
  /\ outbox # << >>
  /\ outbox[Len(outbox)].userId = "u1"
  /\ outbox[Len(outbox)].at = T0 + 7 * HOUR_MS
  /\ telegramConnections[1].userId = "u1"
  /\ telegramConnections[1].lastNotifiedAt = T0 + 7 * HOUR_MS
  /\ telegramConnections[2].userId = "u2"
  /\ telegramConnections[2].lastNotifiedAt = null

----------------------------------------------------------------------------
(* Further properties of the sync jobs *)

\* the connection shows the failure of a job that met a 401
ShowsUnauthorized(c) ==
  c.syncStatus = "error" /\ c.lastErrorMessage = "GitHub API error (401)"

\* C35: when the provider answers 401 during a job the Connection's syncStatus is
\* error and its error code is not the code recorded for the other job failures
\* (here the code SYNC_JOB_FAILED of a 500), and the job is not retried without
\* bound: it never counts more than MAX_JOB_ATTEMPTS failures and is failed at the
\* last of them.
C35_AuthErrorHasItsOwnCode ==
  /\ \A i \in DOMAIN connections :
       ShowsUnauthorized(connections[i]) => connections[i].lastErrorCode # "SYNC_JOB_FAILED"
  /\ \A i \in DOMAIN jobs :
       /\ jobs[i].attempt <= MAX_JOB_ATTEMPTS
       /\ jobs[i].attempt = MAX_JOB_ATTEMPTS => jobs[i].status = "failed"

\* the messages the catch block of fetchCommits swallows
SwallowedMessages ==
  {githubRequestError(404), githubRequestError(409), githubRequestError(422)}

\* the commit of the provider is among the commit events, under whichever of the
\* repositories that hold it was listed first
Stored(commit) ==
  \E i \in DOMAIN commitEvents : commitEvents[i].sha = commit.sha

\* C36: a 404, 409 or 422 answer to a branch listing does not take the job through
\* the failure path (the task does not reach the catch block, and neither the job nor
\* the Connection records the error), and the job continues with the remaining
\* repositories: when it completes, the commits of the other repositories are stored.
C36_RefusedListingIsEmpty ==
  /\ \A t \in tasks :
       t.message \in SwallowedMessages => t.pc \notin {"catch", "fail", "crashed"}
  /\ \A i \in DOMAIN jobs : jobs[i].errorMessage \notin SwallowedMessages
  /\ \A i \in DOMAIN connections :
       connections[i].lastErrorMessage \notin SwallowedMessages
  /\ \A i \in DOMAIN jobs :
       jobs[i].status = "completed" =>
         \A k \in DOMAIN github : github[k].repo # "r1" => Stored(github[k])

\* the listing of r1 was refused at the first attempt: the job is completed without a
\* failure, the commits of r2 are stored and nothing is stored from r1
C36_Witness ==
  /\ jobs[1].status = "completed"
  /\ jobs[1].attempt = 0
  /\ connections[1].syncStatus = "idle"
  /\ \A k \in DOMAIN github : github[k].repo # "r1" => Stored(github[k])
  /\ \A i \in DOMAIN commitEvents : commitEvents[i].repo # "r1"

\* the jobs a claim made now would take: there are none when none is pending and due
NothingToClaim == Len(claimSyncJobs(jobs, WORKER_BATCH_SIZE, now).claimed) = 0

\* C37: an invocation of runSyncWorker makes at most 6 claims (its rounds are numbered
\* 0 to 5), a claim gives it at most 8 jobs, at most 3 of its jobs are being processed
\* at any moment, and a claim that returns no job ends the invocation: the worker is
\* idle after it and has started no task.
C37_WorkerIsBounded ==
  /\ [](\A w \in Workers :
         /\ workers[w].round < 6
         /\ Len(workers[w].claimed) <= 8
         /\ Cardinality({t \in tasks : t.w = w /\ t.pc # "done"}) <= 3)
  /\ [][\A w \in Workers :
          workers[w].pc = "claim" /\ workers'[w] # workers[w] /\ NothingToClaim
            => workers'[w].pc = "idle" /\ tasks' = tasks]_vars

\* the sixth round of an invocation has processed its claim and a requeued job is
\* left pending: the invocation ends at the cap of the rounds, not at an empty claim
C37_Witness ==
  /\ workers["w1"].round = 5
  /\ workers["w1"].pc = "batch"
  /\ \E i \in DOMAIN jobs : jobs[i].status = "pending"

\* C38: as long as the user's Connection row is not deleted, its syncedFromAt never
\* increases and its syncedToAt never decreases, and neither returns to null, also
\* when jobs of the user are processed at overlapping times.
C38_SyncedRangeOnlyGrows ==
  [][\A i \in DOMAIN connections :
       i \in DOMAIN connections' /\ connections'[i].userId = connections[i].userId
         => /\ connections[i].syncedFromAt # null
                 => /\ connections'[i].syncedFromAt # null
                    /\ connections'[i].syncedFromAt <= connections[i].syncedFromAt
            /\ connections[i].syncedToAt # null
                 => /\ connections'[i].syncedToAt # null
                    /\ connections'[i].syncedToAt >= connections[i].syncedToAt]_vars

\* the stored CommitEvents of a user whose local day in a zone is that of an instant
EventsOfLocalDay(userId, timeZone, instant) ==
  {i \in DOMAIN commitEvents :
     /\ commitEvents[i].userId = userId
     /\ toDateKey(commitEvents[i].committedAt, timeZone) = toDateKey(instant, timeZone)}

\* C39: the commit count and the LOC the reminder engine reads as today's DailyStat
\* for a user are the number and the total size of the user's stored CommitEvents
\* whose local day, in the zone the engine uses for the user (that of the Goals, else
\* that of the notification connection, else UTC), is today.
C39_TodayIsTheEventsOfToday ==
  [][reminder.pc = "evaluate" /\ reminder' # reminder /\ reminder'.context.found =>
       LET context == reminder'.context
           mine == EventsOfLocalDay(reminder.list[reminder.pos], context.timeZone, now)
       IN  /\ context.commitCount = Cardinality(mine)
           /\ context.locChanged = SizeSum(mine)]_vars

----------------------------------------------------------------------------
(* Properties of the login sessions *)

\* C40: a login session that has been consumed is never confirmed again and is never
\* consumed a second time, whichever startLoginSession and confirmLoginSession calls
\* arrive after the consumption.
C40_ConsumedIsFinal ==
  /\ [](\A i \in DOMAIN telegramLogins :
          telegramLogins[i].consumedAt # null => telegramLogins[i].status # "confirmed")
  /\ [][\A i \in DOMAIN telegramLogins :
          telegramLogins[i].status # "consumed" /\ telegramLogins'[i].status = "consumed"
            => telegramLogins[i].consumedAt = null]_vars

====
